---- MODULE Spec2Model ----
(***************************************************************************)
(* Model of the lead/student matching pipeline of                          *)
(* src/src/controllers/similarStudents.ts: the handler, the helpers it     *)
(* calls, and the lead_similar_users table it writes.                      *)
(*                                                                         *)
(* Strings the code inspects character by character (the leadId, the       *)
(* limit, the semantic fields of a lead) are sequences of one-character    *)
(* strings.  A JavaScript null/undefined is the marker Null.                *)
(***************************************************************************)
EXTENDS Integers, Sequences, FiniteSets, TLC

Null == <<"<null>">>

\* ------------------------------------------------------------------------
\* Bounds of the model
\* ------------------------------------------------------------------------

\* execution contexts that can run the handler
MaxInvocations == 2
\* rows of student_embeddings
MaxStudents == 2
\* length of the topMatches list the generative model returns
MaxMatches == 2
\* length of the free part of a raw leadId
MaxSuffix == 2

\* ------------------------------------------------------------------------
\* Program constants
\* ------------------------------------------------------------------------

defaultNumberOfMatches == 10
\* sanitized.length > 100 is rejected
MaxLeadIdLength == 100
\* LIMIT 50 of the nearest-neighbour query
RetrievalWidth == 50

Invs == 1..MaxInvocations

\* ------------------------------------------------------------------------
\* Characters and strings
\* ------------------------------------------------------------------------

Whitespace == {" "}
Digits == {"0", "1", "2", "3", "4", "5", "6", "7", "8", "9"}
\* the class \w of the regular expression: letters, digits, underscore
WordChars == {"a", "b", "_"} \cup Digits
\* [\w-]
AllowedChars == WordChars \cup {"-"}

Range(s) == {s[k] : k \in 1..Len(s)}

Rep(c, n) == [k \in 1..n |-> c]

Min(a, b) == IF a < b THEN a ELSE b
Max(a, b) == IF a > b THEN a ELSE b

\* all sequences over S of length at most n
RECURSIVE SeqsUpTo(_, _)
SeqsUpTo(S, n) ==
    IF n = 0 THEN {<<>>}
    ELSE LET shorter == SeqsUpTo(S, n - 1)
         IN shorter \cup {Append(s, x) : s \in {t \in shorter : Len(t) = n - 1}, x \in S}

\* the positions of s that hold no whitespace
NonBlankPositions(s) == {k \in 1..Len(s) : s[k] \notin Whitespace}

\* String.prototype.trimStart
trimStart(s) ==
    LET ks == NonBlankPositions(s)
    IN IF ks = {} THEN <<>>
       ELSE SubSeq(s, CHOOSE k \in ks : \A j \in ks : k <= j, Len(s))

\* String.prototype.trimEnd
trimEnd(s) ==
    LET ks == NonBlankPositions(s)
    IN IF ks = {} THEN <<>>
       ELSE SubSeq(s, 1, CHOOSE k \in ks : \A j \in ks : k >= j)

\* String.prototype.trim
trim(s) == trimEnd(trimStart(s))

IsAllowedChar(c) == c \in AllowedChars

\* s.replace(/[^\w-]/g, ""): the allowed characters of s, in order
stripDisallowed(s) == SelectSeq(s, IsAllowedChar)

\* JavaScript truthiness of a string-or-null value
Truthy(v) == v # Null /\ v # <<>>

\* ------------------------------------------------------------------------
\* validateLeadId
\* ------------------------------------------------------------------------

validateLeadId_offByOne(leadId) ==
    IF ~Truthy(leadId) THEN Null
    ELSE LET sanitized == stripDisallowed(trim(leadId))
         IN IF Len(sanitized) < 1 \/ Len(sanitized) > MaxLeadIdLength + 1
            THEN Null ELSE sanitized

validateLeadId_returnsTrimmed(leadId) ==
    IF ~Truthy(leadId) THEN Null
    ELSE LET sanitized == stripDisallowed(trim(leadId))
         IN IF Len(sanitized) < 1 \/ Len(sanitized) > MaxLeadIdLength
            THEN Null ELSE trim(leadId)

validateLeadId(leadId) ==
    IF ~Truthy(leadId) THEN Null
    ELSE LET sanitized == stripDisallowed(trim(leadId))
         IN IF Len(sanitized) < 1 \/ Len(sanitized) > MaxLeadIdLength
            THEN Null ELSE sanitized

\* ------------------------------------------------------------------------
\* Lead rows and the profile text
\* ------------------------------------------------------------------------

meaningfulFields ==
    << "bachelor_school", "bachelor_program_name", "bachelor_gpa",
       "master_school", "master_program_name", "master_gpa",
       "intended_program_level", "intended_programs", "intended_direction" >>

Fields == Range(meaningfulFields)

Sentinel == <<"-">>

\* values a column of a lead row can hold: absent, "", "-", " ", "x"
FieldValues == {Null, <<>>, Sentinel, <<" ">>, <<"x">>}

validateLeadData_noSentinel(leadData) ==
    \E k \in 1..Len(meaningfulFields) :
        LET v == leadData[meaningfulFields[k]]
        IN Truthy(v) /\ Len(trim(v)) > 0

\* lines 183-186: the test validateLeadData makes of the value of a field
meaningfulValue(v) == Truthy(v) /\ v # Sentinel /\ Len(trim(v)) > 0

\* lines 163-187
validateLeadData(leadData) ==
    \E k \in 1..Len(meaningfulFields) : meaningfulValue(leadData[meaningfulFields[k]])

\* a line is the label and the value of `${label}: ${value}`; no line is ""
NoLine == [label |-> "", value |-> <<>>]

safeLine_keepSentinel(label, value) ==
    IF Truthy(value) THEN [label |-> label, value |-> value] ELSE NoLine

\* lines 222-224
safeLine(label, value) ==
    IF Truthy(value) /\ value # Sentinel THEN [label |-> label, value |-> value]
    ELSE NoLine

\* lines.filter(Boolean).join("\n"): the text is the sequence of its lines
RECURSIVE joinLines(_)
joinLines(lines) ==
    IF lines = <<>> THEN <<>>
    ELSE IF Head(lines) = NoLine THEN joinLines(Tail(lines))
         ELSE <<Head(lines)>> \o joinLines(Tail(lines))

prepareTextForEmbedding_eightLines(leadData) ==
    joinLines(<<
        safeLine("Bachelor School", leadData["bachelor_school"]),
        safeLine("Bachelor Program", leadData["bachelor_program_name"]),
        safeLine("Bachelor GPA", leadData["bachelor_gpa"]),
        safeLine("Master School", leadData["master_school"]),
        safeLine("Master Program", leadData["master_program_name"]),
        safeLine("Master GPA", leadData["master_gpa"]),
        safeLine("Intended Program Level", leadData["intended_program_level"]),
        safeLine("Intended Programs", leadData["intended_programs"]) >>)

prepareTextForEmbedding(leadData) ==
    joinLines(<<
        safeLine("Bachelor School", leadData["bachelor_school"]),
        safeLine("Bachelor Program", leadData["bachelor_program_name"]),
        safeLine("Bachelor GPA", leadData["bachelor_gpa"]),
        safeLine("Master School", leadData["master_school"]),
        safeLine("Master Program", leadData["master_program_name"]),
        safeLine("Master GPA", leadData["master_gpa"]),
        safeLine("Intended Program Level", leadData["intended_program_level"]),
        safeLine("Intended Programs", leadData["intended_programs"]),
        safeLine("Intended Direction", leadData["intended_direction"]) >>)

\* a line of text that is not made by safeLine: it has no label
RawLine(value) == [label |-> "", value |-> value]

\* !text || text.trim().length === 0: a line made by safeLine starts with its
\* label, so the text trims to "" exactly when it has no line with a label
\* and nothing but whitespace in the others
IsBlankText(text) ==
    \A l \in 1..Len(text) : text[l].label = "" /\ trim(text[l].value) = <<>>

\* ------------------------------------------------------------------------
\* The limit parameter
\* ------------------------------------------------------------------------

NaN == [nan |-> TRUE, n |-> 0]

DigitValue(c) ==
    CASE c = "0" -> 0 [] c = "1" -> 1 [] c = "2" -> 2 [] c = "3" -> 3
      [] c = "4" -> 4 [] c = "5" -> 5 [] c = "6" -> 6 [] c = "7" -> 7
      [] c = "8" -> 8 [] c = "9" -> 9

\* the value of the longest prefix of digits of s, read after acc
RECURSIVE digitsPrefix(_, _)
digitsPrefix(s, acc) ==
    IF s # <<>> /\ Head(s) \in Digits
    THEN digitsPrefix(Tail(s), acc * 10 + DigitValue(Head(s)))
    ELSE acc

\* parseInt(s, 10): leading whitespace skipped, an optional sign, then the
\* digits up to the first other character; NaN when there is no digit
parseInt(s) ==
    LET t == trimStart(s)
        signed == t # <<>> /\ Head(t) \in {"-", "+"}
        u == IF signed THEN Tail(t) ELSE t
    IN IF u = <<>> \/ Head(u) \notin Digits THEN NaN
       ELSE [nan |-> FALSE,
             n |-> IF signed /\ Head(t) = "-" THEN 0 - digitsPrefix(u, 0)
                   ELSE digitsPrefix(u, 0)]

requestedLimitOf_noClamp(rawLimit) ==
    LET n == IF rawLimit # Null THEN parseInt(rawLimit) ELSE NaN
    IN IF n.nan THEN defaultNumberOfMatches ELSE n.n

\* lines 646-651 of the handler
requestedLimitOf(rawLimit) ==
    LET n == IF rawLimit # Null THEN parseInt(rawLimit) ELSE NaN
    IN IF n.nan THEN defaultNumberOfMatches
       ELSE Min(Max(n.n, 1), defaultNumberOfMatches)

\* ------------------------------------------------------------------------
\* What the collaborators can answer
\* ------------------------------------------------------------------------

IdDigits == <<"1", "2", "3", "4", "5", "6", "7", "8", "9">>

\* the mongo_id of the k-th row of student_embeddings
StudentId(k) == <<"m", IdDigits[k]>>

StudentRow(k) == [mongo_id |-> StudentId(k), text |-> <<"t", IdDigits[k]>>, distance |-> k]

\* an identifier that is in no row of student_embeddings
FabricatedId == <<"f">>

\* ORDER BY distance ASC of the rows whose distance is in ks
RECURSIVE orderByDistance(_)
orderByDistance(ks) ==
    IF ks = {} THEN <<>>
    ELSE LET k == CHOOSE x \in ks : \A y \in ks : x <= y
         IN <<StudentRow(k)>> \o orderByDistance(ks \ {k})

\* the answers of the nearest-neighbour query, over every content of the
\* student_embeddings table
CandidateSeqs ==
    {LET rows == orderByDistance(ks)
     IN SubSeq(rows, 1, Min(Len(rows), RetrievalWidth)) : ks \in SUBSET (1..MaxStudents)}

Reasons == {<<"r1">>, <<"r2">>}

\* a value that is not a string (a number, an object)
NonString == <<"<nonstring>">>

MatchIds == {StudentId(k) : k \in 1..MaxStudents} \cup {FabricatedId}

\* well-formed elements of topMatches: every identifier with the first reason,
\* and the first student with every reason
MatchItems ==
    [mongoId : MatchIds, reason : {<<"r1">>}] \cup [mongoId : {StudentId(1)}, reason : Reasons]

\* elements of topMatches with a mongoId or a reason that is "", missing or no string
BadItems ==
    [mongoId : {<<>>, Null, NonString}, reason : {<<"r1">>}]
      \cup [mongoId : {StudentId(1)}, reason : {<<>>, Null, NonString}]

NoParsed == [hasTopMatches |-> FALSE, isArray |-> FALSE, topMatches |-> <<>>]

\* the answers of the chat completion: the call throws, the response has no
\* choices or no content, the content is no JSON, is the JSON null, or is a
\* JSON object (with or without a topMatches array)
ChatResponses ==
    {[kind |-> k, parsed |-> NoParsed] :
        k \in {"throw", "no_choices", "no_content", "not_json", "json_null"}}
      \cup {[kind |-> "json", parsed |-> NoParsed]}
      \cup {[kind |-> "json",
             parsed |-> [hasTopMatches |-> TRUE, isArray |-> FALSE, topMatches |-> <<>>]]}
      \cup {[kind |-> "json",
             parsed |-> [hasTopMatches |-> TRUE, isArray |-> TRUE, topMatches |-> ms]] :
                ms \in SeqsUpTo(MatchItems, MaxMatches)}
      \cup {[kind |-> "json",
             parsed |-> [hasTopMatches |-> TRUE, isArray |-> TRUE, topMatches |-> ms]] :
                ms \in {<<b>> : b \in BadItems}
                         \cup {<<[mongoId |-> StudentId(1), reason |-> <<"r1">>], b>> :
                                  b \in BadItems}}

\* the answers of the embeddings call: it throws, the response carries no
\* embedding, or it carries a vector (which may be the empty array)
EmbeddingResponses ==
    {[kind |-> "throw", embedding |-> <<>>], [kind |-> "no_data", embedding |-> <<>>],
     [kind |-> "ok", embedding |-> <<>>], [kind |-> "ok", embedding |-> <<"0.1">>]}

\* ------------------------------------------------------------------------
\* Requests and lead rows
\* ------------------------------------------------------------------------

\* the leads table has rows for these identifiers only
ExistingLeadIds == {<<"a">>, <<"1">>}

NoRow == [f \in Fields |-> Null]

UniformRow(v) == [f \in Fields |-> v]

\* the example of the specification: bachelor_school and intended_programs "-"
ExampleRow == [NoRow EXCEPT !["bachelor_school"] = Sentinel, !["intended_programs"] = Sentinel]

\* a row with a real value in one field and the sentinel in another
RealRow == [NoRow EXCEPT !["master_gpa"] = <<"x">>, !["intended_direction"] = Sentinel]

\* rows of the leads table the main specification fetches: every field absent,
\* "", "-" or " ", the example, one whitespace-only field, and a real row
LeadRows ==
    {UniformRow(v) : v \in FieldValues \ {<<"x">>}}
      \cup {ExampleRow, [NoRow EXCEPT !["bachelor_school"] = <<" ">>], RealRow}

\* a value of the k-th field that no other field has
FieldValue(k) == <<"v", IdDigits[k]>>

\* rows for the profile text: every field either "-" or its own value, and
\* rows with one field of every kind, the others absent or set
ProfileRows ==
    {[f \in Fields |->
         LET k == CHOOSE j \in 1..Len(meaningfulFields) : meaningfulFields[j] = f
         IN IF k \in set THEN FieldValue(k) ELSE Sentinel] :
       set \in SUBSET (1..Len(meaningfulFields))}
      \cup {[NoRow EXCEPT ![f] = v] : f \in Fields, v \in FieldValues}
      \cup {[UniformRow(<<"x">>) EXCEPT ![f] = v] : f \in Fields, v \in FieldValues}

\* raw leadId parameters around the length boundary: a run of n letters,
\* n around MaxLeadIdLength, followed by at most MaxSuffix free characters
BoundaryLeadIds ==
    {Null} \cup
    {Rep("a", n) \o s : n \in {0, 1, MaxLeadIdLength - 1, MaxLeadIdLength, MaxLeadIdLength + 1},
                        s \in SeqsUpTo({"a", "-", " ", "!"}, MaxSuffix)}

\* raw leadId parameters of the main specification
RawLeadIds == {Null, <<>>, <<"!">>, <<" ", "a", "!">>, <<"b">>}

RawLimits == {Null, <<"1">>}

\* raw limit parameters: absent, without a number, below, inside and above
\* the range, signed, padded, fractional and followed by other characters
WideLimits ==
    {Null, <<>>, <<"a">>, <<"-">>, <<"0">>, <<"-", "5">>, <<"1">>, <<"5">>, <<"1", "0">>,
     <<"1", "1">>, <<"9", "9">>, <<"7", "a">>, <<" ", "3">>, <<"+", "4">>, <<"5", ".", "7">>}

NoEvent == [present |-> FALSE, leadId |-> Null, limit |-> Null]

\* the events of a family of leadId and limit parameters, and the null event
Events(leadIds, limits) ==
    {NoEvent} \cup [present : {TRUE}, leadId : leadIds, limit : limits]

\* ------------------------------------------------------------------------
\* State
\* ------------------------------------------------------------------------

VARIABLES
    pc,               \* where each execution context is in the handler
    event,            \* the event of the invocation
    leadId,           \* const leadId of the handler
    client,           \* let client: "undefined", "created", "connected", "ended"
    leadData,         \* const leadData
    inputText,        \* const inputText
    embedding,        \* const embedding
    similarStudents,  \* const similarStudents
    requestedLimit,   \* const requestedLimit (0 before it is computed)
    prompt,           \* const prompt
    aiResult,         \* const aiResult
    error,            \* the error caught by the handler's catch
    response,         \* the APIGatewayProxyResult returned
    calls,            \* the external calls of the invocation, in order
    store,            \* the table lead_similar_users
    prevRun,          \* what the previous invocation observed (when tracked)
    priorStore,       \* the table as insertMatchedStudents found it (when tracked)
    env               \* the names of process.env that have a non-empty value

vars == << pc, event, leadId, client, leadData, inputText, embedding, similarStudents,
           requestedLimit, prompt, aiResult, error, response, calls, store, prevRun,
           priorStore, env >>

locals == << event, leadId, client, leadData, inputText, embedding, similarStudents,
             requestedLimit, prompt, aiResult, error, response, calls >>

NoError == [name |-> "", message |-> ""]
NoResponse == [statusCode |-> 0, body |-> [none |-> TRUE]]
NoPrompt == [inputText |-> <<>>, similarStudents |-> <<>>, numberMatches |-> 0]
NoAIResult == [topMatches |-> <<>>]
NoRun == [tracked |-> FALSE, leadId |-> Null, leadData |-> NoRow, embedding |-> <<>>,
          similarStudents |-> <<>>, topMatches |-> <<>>, statusCode |-> 0]

\* requestTimer.end(): the elapsed time is some number
Elapsed == "ms"

\* lines 56-57: the environment variables the module requires
requiredEnvVars == <<"OPENAI_API_KEY", "POSTGRES_URI">>

missingVars == {v \in Range(requiredEnvVars) : v \notin env}

\* an execution context starts by loading the module, in some environment
Init ==
    /\ pc = [i \in Invs |-> "load"]
    /\ env \in SUBSET Range(requiredEnvVars)
    /\ event = [i \in Invs |-> NoEvent]
    /\ leadId = [i \in Invs |-> Null]
    /\ client = [i \in Invs |-> "undefined"]
    /\ leadData = [i \in Invs |-> NoRow]
    /\ inputText = [i \in Invs |-> <<>>]
    /\ embedding = [i \in Invs |-> <<>>]
    /\ similarStudents = [i \in Invs |-> <<>>]
    /\ requestedLimit = [i \in Invs |-> 0]
    /\ prompt = [i \in Invs |-> NoPrompt]
    /\ aiResult = [i \in Invs |-> NoAIResult]
    /\ error = [i \in Invs |-> NoError]
    /\ response = [i \in Invs |-> NoResponse]
    /\ calls = [i \in Invs |-> <<>>]
    /\ store = {}
    /\ prevRun = NoRun
    /\ priorStore = [i \in Invs |-> {}]

\* a call of the invocation to a collaborator and how it ended
Call(op, result) == [op |-> op, result |-> result]

Called(i, op) == \E k \in 1..Len(calls[i]) : calls[i][k].op = op

CalledWith(i, op, results) ==
    \E k \in 1..Len(calls[i]) : calls[i][k].op = op /\ calls[i][k].result \in results

\* what the invocation observed of its collaborators
Observed(i) ==
    [tracked |-> TRUE, leadId |-> leadId[i], leadData |-> leadData[i],
     embedding |-> embedding[i], similarStudents |-> similarStudents[i],
     topMatches |-> aiResult[i].topMatches, statusCode |-> response[i].statusCode]

\* ------------------------------------------------------------------------
\* The handler up to the database connection
\* ------------------------------------------------------------------------

moduleLoad_noCheck(i) ==
    /\ pc[i] = "load"
    /\ pc' = [pc EXCEPT ![i] = "idle"]
    /\ UNCHANGED << locals, store, prevRun, priorStore, env >>

\* lines 56-62: loading the module throws when a required variable is missing,
\* and the execution context never gets a handler
moduleLoad(i) ==
    /\ pc[i] = "load"
    /\ pc' = [pc EXCEPT ![i] = IF missingVars = {} THEN "idle" ELSE "fatal"]
    /\ UNCHANGED << locals, store, prevRun, priorStore, env >>

\* A request arrives at an execution context that is free.  With track, the
\* invocation that just ended there is remembered as the previous run.
handler_start(i, events, track) ==
    /\ pc[i] \in {"idle", "done"}
    /\ \E ev \in events : event' = [event EXCEPT ![i] = ev]
    /\ pc' = [pc EXCEPT ![i] = "validate"]
    /\ leadId' = [leadId EXCEPT ![i] = Null]
    /\ client' = [client EXCEPT ![i] = "undefined"]
    /\ leadData' = [leadData EXCEPT ![i] = NoRow]
    /\ inputText' = [inputText EXCEPT ![i] = <<>>]
    /\ embedding' = [embedding EXCEPT ![i] = <<>>]
    /\ similarStudents' = [similarStudents EXCEPT ![i] = <<>>]
    /\ requestedLimit' = [requestedLimit EXCEPT ![i] = 0]
    /\ prompt' = [prompt EXCEPT ![i] = NoPrompt]
    /\ aiResult' = [aiResult EXCEPT ![i] = NoAIResult]
    /\ error' = [error EXCEPT ![i] = NoError]
    /\ response' = [response EXCEPT ![i] = NoResponse]
    /\ calls' = [calls EXCEPT ![i] = <<>>]
    /\ prevRun' = IF track /\ pc[i] = "done" THEN Observed(i) ELSE prevRun
    /\ priorStore' = [priorStore EXCEPT ![i] = {}]
    /\ UNCHANGED << store, env >>

\* throw e inside the try block
Throw(i, name, message) ==
    /\ error' = [error EXCEPT ![i] = [name |-> name, message |-> message]]
    /\ pc' = [pc EXCEPT ![i] = "catch"]

\* return r inside the try block: the finally block runs next
Return(i, statusCode, body) ==
    /\ response' = [response EXCEPT ![i] = [statusCode |-> statusCode, body |-> body]]
    /\ pc' = [pc EXCEPT ![i] = "finally"]

\* lines 520-554: the event and the leadId are checked, the client is created
handler_validate(i) ==
    /\ pc[i] = "validate"
    /\ IF ~event[i].present
       THEN /\ Throw(i, "ValidationError", "Event object is required")
            /\ UNCHANGED << leadId, client, response >>
       ELSE LET id == validateLeadId(event[i].leadId)
            IN IF id = Null
               THEN /\ Return(i, 400,
                          [error |-> "Invalid or missing leadId parameter",
                           details |-> "leadId must be a non-empty string with valid characters"])
                    /\ UNCHANGED << leadId, client, error >>
               ELSE /\ leadId' = [leadId EXCEPT ![i] = id]
                    /\ client' = [client EXCEPT ![i] = "created"]
                    /\ pc' = [pc EXCEPT ![i] = "connect"]
                    /\ UNCHANGED << error, response >>
    /\ UNCHANGED << event, leadData, inputText, embedding, similarStudents, requestedLimit,
                    prompt, aiResult, calls, store, prevRun, priorStore, env >>

handler_connect_escape(i) ==
    /\ pc[i] = "connect"
    /\ \E ok \in BOOLEAN :
        /\ calls' = [calls EXCEPT ![i] = Append(@, Call("connect", IF ok THEN "ok" ELSE "error"))]
        /\ client' = [client EXCEPT ![i] = IF ok THEN "connected" ELSE @]
        /\ pc' = [pc EXCEPT ![i] = IF ok THEN "getLeadData" ELSE "done"]
    /\ UNCHANGED << event, leadId, leadData, inputText, embedding, similarStudents,
                    requestedLimit, prompt, aiResult, error, response, store, prevRun,
                    priorStore, env >>

handler_connect_ignoreFailure(i) ==
    /\ pc[i] = "connect"
    /\ \E ok \in BOOLEAN :
        /\ calls' = [calls EXCEPT ![i] = Append(@, Call("connect", IF ok THEN "ok" ELSE "error"))]
        /\ client' = [client EXCEPT ![i] = IF ok THEN "connected" ELSE @]
    /\ pc' = [pc EXCEPT ![i] = "getLeadData"]
    /\ UNCHANGED << event, leadId, leadData, inputText, embedding, similarStudents,
                    requestedLimit, prompt, aiResult, error, response, store, prevRun,
                    priorStore, env >>

\* line 560: await client.connect(); a failure is thrown as the driver raised it
handler_connect(i) ==
    /\ pc[i] = "connect"
    /\ \E ok \in BOOLEAN :
        /\ calls' = [calls EXCEPT ![i] = Append(@, Call("connect", IF ok THEN "ok" ELSE "error"))]
        /\ IF ok
           THEN /\ client' = [client EXCEPT ![i] = "connected"]
                /\ pc' = [pc EXCEPT ![i] = "getLeadData"]
                /\ UNCHANGED error
           ELSE /\ Throw(i, "Error", "connect failed")
                /\ UNCHANGED client
    /\ UNCHANGED << event, leadId, leadData, inputText, embedding, similarStudents,
                    requestedLimit, prompt, aiResult, response, store, prevRun, priorStore, env >>

\* ------------------------------------------------------------------------
\* getLeadData
\* ------------------------------------------------------------------------

Ok(value) == [threw |-> FALSE, error |-> NoError, value |-> value]
Threw(name, message, value) ==
    [threw |-> TRUE, error |-> [name |-> name, message |-> message], value |-> value]

\* what the query on leads can do for an identifier: fail, match no row, or
\* return the row (only an existing identifier has one)
LeadQueryOutcomes(id, rows) ==
    {[kind |-> "error", row |-> NoRow], [kind |-> "no_rows", row |-> NoRow]}
      \cup {[kind |-> "row", row |-> r] : r \in IF id \in ExistingLeadIds THEN rows ELSE {}}

getLeadData_wrapAll(outcome) ==
    IF outcome.kind = "row" THEN Ok(outcome.row)
    ELSE Threw("DatabaseError", "Failed to retrieve lead data", NoRow)

\* the try/catch of getLeadData on the outcome of its query
getLeadData_result(outcome) ==
    CASE outcome.kind = "error" ->
            Threw("DatabaseError", "Failed to retrieve lead data", NoRow)
      [] outcome.kind = "no_rows" ->
            Threw("ValidationError", "Lead with ID not found", NoRow)
      [] outcome.kind = "row" -> Ok(outcome.row)

\* line 566: await getLeadData(client, leadId)
getLeadData(i, rows) ==
    /\ pc[i] = "getLeadData"
    /\ \E outcome \in LeadQueryOutcomes(leadId[i], rows) :
        LET r == getLeadData_result(outcome)
        IN /\ calls' = [calls EXCEPT ![i] = Append(@, Call("fetch", outcome.kind))]
           /\ IF r.threw
              THEN /\ Throw(i, r.error.name, r.error.message)
                   /\ UNCHANGED leadData
              ELSE /\ leadData' = [leadData EXCEPT ![i] = r.value]
                   /\ pc' = [pc EXCEPT ![i] = "prepare"]
                   /\ UNCHANGED error
    /\ UNCHANGED << event, leadId, client, inputText, embedding, similarStudents,
                    requestedLimit, prompt, aiResult, response, store, prevRun, priorStore, env >>

\* ------------------------------------------------------------------------
\* The meaningfulness check and the profile text (lines 569-611)
\* ------------------------------------------------------------------------

ShortCircuitBody(id, message) ==
    [leadId |-> id, message |-> message, matches |-> <<>>, processingTime |-> Elapsed]

handler_prepare_noShortCircuit(i) ==
    /\ pc[i] = "prepare"
    /\ inputText' = [inputText EXCEPT ![i] = prepareTextForEmbedding(leadData[i])]
    /\ pc' = [pc EXCEPT ![i] = "generateEmbedding"]
    /\ UNCHANGED << event, leadId, client, leadData, embedding, similarStudents,
                    requestedLimit, prompt, aiResult, error, response, calls, store, prevRun, priorStore, env >>

handler_prepare(i) ==
    /\ pc[i] = "prepare"
    /\ IF ~validateLeadData(leadData[i])
       THEN /\ Return(i, 200, ShortCircuitBody(leadId[i], "No meaningful data found for lead"))
            /\ UNCHANGED inputText
       ELSE LET text == prepareTextForEmbedding(leadData[i])
            IN /\ inputText' = [inputText EXCEPT ![i] = text]
               /\ IF IsBlankText(text)
                  THEN Return(i, 200,
                           ShortCircuitBody(leadId[i], "No text could be generated from lead data"))
                  ELSE /\ pc' = [pc EXCEPT ![i] = "generateEmbedding"]
                       /\ UNCHANGED response
    /\ UNCHANGED << event, leadId, client, leadData, embedding, similarStudents,
                    requestedLimit, prompt, aiResult, error, calls, store, prevRun, priorStore, env >>

\* ------------------------------------------------------------------------
\* generateEmbedding
\* ------------------------------------------------------------------------

generateEmbedding_noRewrap(resp) ==
    CASE resp.kind = "throw" -> Threw("Error", "request timed out", <<>>)
      [] resp.kind = "no_data" ->
            Threw("OpenAIError", "Invalid response from OpenAI embeddings API", <<>>)
      [] resp.kind = "ok" -> Ok(resp.embedding)

generateEmbedding_swallowThrow(resp) ==
    CASE resp.kind = "throw" -> Ok(<<"0.1">>)
      [] resp.kind = "no_data" -> Threw("OpenAIError", "Failed to generate embedding", <<>>)
      [] resp.kind = "ok" -> Ok(resp.embedding)

\* lines 289-304: the response is checked; whatever is thrown that is no
\* ValidationError is rewrapped by the catch
generateEmbedding_result(resp) ==
    CASE resp.kind = "throw" -> Threw("OpenAIError", "Failed to generate embedding", <<>>)
      [] resp.kind = "no_data" -> Threw("OpenAIError", "Failed to generate embedding", <<>>)
      [] resp.kind = "ok" -> Ok(resp.embedding)

EmbeddingCallResult(resp) ==
    CASE resp.kind = "throw" -> "throw"
      [] resp.kind = "no_data" -> "no_vector"
      [] resp.kind = "ok" -> IF resp.embedding = <<>> THEN "empty_vector" ELSE "vector"

generateEmbedding_rewrapAll(i, responses) ==
    /\ pc[i] = "generateEmbedding"
    /\ IF IsBlankText(inputText[i])
       THEN /\ Throw(i, "OpenAIError", "Failed to generate embedding")
            /\ UNCHANGED << embedding, calls >>
       ELSE \E resp \in responses :
               LET r == generateEmbedding_result(resp)
               IN /\ calls' = [calls EXCEPT ![i] =
                                  Append(@, Call("embed", EmbeddingCallResult(resp)))]
                  /\ IF r.threw
                     THEN /\ Throw(i, r.error.name, r.error.message)
                          /\ UNCHANGED embedding
                     ELSE /\ embedding' = [embedding EXCEPT ![i] = r.value]
                          /\ pc' = [pc EXCEPT ![i] = "findSimilarStudents"]
                          /\ UNCHANGED error
    /\ UNCHANGED << event, leadId, client, leadData, inputText, similarStudents,
                    requestedLimit, prompt, aiResult, response, store, prevRun,
                    priorStore, env >>

\* lines 283-305, called at line 615: await generateEmbedding(inputText)
generateEmbedding(i, responses) ==
    /\ pc[i] = "generateEmbedding"
    /\ IF IsBlankText(inputText[i])
       THEN /\ Throw(i, "ValidationError", "Text for embedding cannot be empty")
            /\ UNCHANGED << embedding, calls >>
       ELSE \E resp \in responses :
               LET r == generateEmbedding_result(resp)
               IN /\ calls' = [calls EXCEPT ![i] = Append(@, Call("embed", EmbeddingCallResult(resp)))]
                  /\ IF r.threw
                     THEN /\ Throw(i, r.error.name, r.error.message)
                          /\ UNCHANGED embedding
                     ELSE /\ embedding' = [embedding EXCEPT ![i] = r.value]
                          /\ pc' = [pc EXCEPT ![i] = "findSimilarStudents"]
                          /\ UNCHANGED error
    /\ UNCHANGED << event, leadId, client, leadData, inputText, similarStudents,
                    requestedLimit, prompt, aiResult, response, store, prevRun, priorStore, env >>

\* ------------------------------------------------------------------------
\* findSimilarStudents, the limit and the prompt
\* ------------------------------------------------------------------------

\* what the nearest-neighbour query can do: fail, or return the candidates
SearchOutcomes(candidateSeqs) ==
    {[kind |-> "error", rows |-> <<>>]} \cup {[kind |-> "rows", rows |-> c] : c \in candidateSeqs}

findSimilarStudents_swallowError(outcome) == Ok(outcome.rows)

\* lines 319-333
findSimilarStudents_result(outcome) ==
    IF outcome.kind = "error"
    THEN Threw("DatabaseError", "Failed to find similar students", <<>>)
    ELSE Ok(outcome.rows)

preparePrompt(text, students, numberMatches) ==
    [inputText |-> text, similarStudents |-> students, numberMatches |-> numberMatches]

\* lines 623-657, after the search returned students
handler_afterSearch_noShortCircuit(i, students) ==
    /\ similarStudents' = [similarStudents EXCEPT ![i] = students]
    /\ requestedLimit' = [requestedLimit EXCEPT ![i] = requestedLimitOf(event[i].limit)]
    /\ prompt' = [prompt EXCEPT ![i] =
                     preparePrompt(inputText[i], students, requestedLimitOf(event[i].limit))]
    /\ pc' = [pc EXCEPT ![i] = "getAIEvaluation"]
    /\ UNCHANGED response

handler_afterSearch(i, students) ==
    /\ similarStudents' = [similarStudents EXCEPT ![i] = students]
    /\ IF Len(students) = 0
       THEN /\ Return(i, 200,
                   [leadId |-> leadId[i], inputProfile |-> inputText[i],
                    message |-> "No similar students found", matches |-> <<>>,
                    processingTime |-> Elapsed])
            /\ UNCHANGED << requestedLimit, prompt >>
       ELSE /\ requestedLimit' = [requestedLimit EXCEPT ![i] = requestedLimitOf(event[i].limit)]
            /\ prompt' = [prompt EXCEPT ![i] =
                             preparePrompt(inputText[i], students, requestedLimitOf(event[i].limit))]
            /\ pc' = [pc EXCEPT ![i] = "getAIEvaluation"]
            /\ UNCHANGED response

\* line 620: await findSimilarStudents(client, embedding)
findSimilarStudents(i, candidateSeqs) ==
    /\ pc[i] = "findSimilarStudents"
    /\ IF embedding[i] = <<>>
       THEN /\ Throw(i, "ValidationError", "Invalid embedding vector provided")
            /\ UNCHANGED << similarStudents, requestedLimit, prompt, response, calls >>
       ELSE \E outcome \in SearchOutcomes(candidateSeqs) :
               LET r == findSimilarStudents_result(outcome)
               IN /\ calls' = [calls EXCEPT ![i] = Append(@, Call("search", outcome.kind))]
                  /\ IF r.threw
                     THEN /\ Throw(i, r.error.name, r.error.message)
                          /\ UNCHANGED << similarStudents, requestedLimit, prompt, response >>
                     ELSE /\ handler_afterSearch(i, r.value)
                          /\ UNCHANGED error
    /\ UNCHANGED << event, leadId, client, leadData, inputText, embedding, aiResult,
                    store, prevRun, priorStore, env >>

\* ------------------------------------------------------------------------
\* getAIEvaluation
\* ------------------------------------------------------------------------

IsNonEmptyString(v) == Truthy(v) /\ v # NonString

\* the loop of lines 437-444: the error of the first element it rejects
RECURSIVE validateMatchItems(_)
validateMatchItems(items) ==
    IF items = <<>> THEN NoError
    ELSE IF ~IsNonEmptyString(Head(items).mongoId)
         THEN [name |-> "OpenAIError", message |-> "Match item missing valid mongoId property"]
         ELSE IF ~IsNonEmptyString(Head(items).reason)
              THEN [name |-> "OpenAIError", message |-> "Match item missing valid reason property"]
              ELSE validateMatchItems(Tail(items))

getAIEvaluation_noItemCheck(resp) ==
    CASE resp.kind \in {"throw", "json_null"} ->
            Threw("OpenAIError", "Failed to get AI evaluation", NoAIResult)
      [] resp.kind = "no_choices" ->
            Threw("OpenAIError", "Invalid response from OpenAI chat API", NoAIResult)
      [] resp.kind = "no_content" ->
            Threw("OpenAIError", "Empty response content from OpenAI", NoAIResult)
      [] resp.kind = "not_json" ->
            Threw("OpenAIError", "Failed to parse AI response as JSON", NoAIResult)
      [] resp.kind = "json" ->
            IF ~resp.parsed.hasTopMatches \/ ~resp.parsed.isArray
            THEN Threw("OpenAIError", "AI response does not contain valid topMatches array",
                       NoAIResult)
            ELSE Ok([topMatches |-> resp.parsed.topMatches])

\* lines 420-455: the checks of the response and the catch that turns every
\* other failure into an OpenAIError
getAIEvaluation_result(resp) ==
    CASE resp.kind \in {"throw", "json_null"} ->
            Threw("OpenAIError", "Failed to get AI evaluation", NoAIResult)
      [] resp.kind = "no_choices" ->
            Threw("OpenAIError", "Invalid response from OpenAI chat API", NoAIResult)
      [] resp.kind = "no_content" ->
            Threw("OpenAIError", "Empty response content from OpenAI", NoAIResult)
      [] resp.kind = "not_json" ->
            Threw("OpenAIError", "Failed to parse AI response as JSON", NoAIResult)
      [] resp.kind = "json" ->
            IF ~resp.parsed.hasTopMatches \/ ~resp.parsed.isArray
            THEN Threw("OpenAIError", "AI response does not contain valid topMatches array",
                       NoAIResult)
            ELSE LET bad == validateMatchItems(resp.parsed.topMatches)
                 IN IF bad # NoError THEN Threw(bad.name, bad.message, NoAIResult)
                    ELSE Ok([topMatches |-> resp.parsed.topMatches])

ChatCallResult(resp) ==
    IF resp.kind = "json" /\ ~getAIEvaluation_result(resp).threw THEN "ok"
    ELSE IF resp.kind = "json" THEN "invalid"
    ELSE resp.kind

\* line 661: await getAIEvaluation(prompt)
getAIEvaluation(i, responses) ==
    /\ pc[i] = "getAIEvaluation"
    /\ IF prompt[i] = NoPrompt
       THEN /\ Throw(i, "ValidationError", "Prompt for AI evaluation cannot be empty")
            /\ UNCHANGED << aiResult, calls >>
       ELSE \E resp \in responses :
               LET r == getAIEvaluation_result(resp)
               IN /\ calls' = [calls EXCEPT ![i] = Append(@, Call("rerank", ChatCallResult(resp)))]
                  /\ IF r.threw
                     THEN /\ Throw(i, r.error.name, r.error.message)
                          /\ UNCHANGED aiResult
                     ELSE /\ aiResult' = [aiResult EXCEPT ![i] = r.value]
                          /\ pc' = [pc EXCEPT ![i] = "insertMatchedStudents"]
                          /\ UNCHANGED error
    /\ UNCHANGED << event, leadId, client, leadData, inputText, embedding, similarStudents,
                    requestedLimit, prompt, response, store, prevRun, priorStore, env >>

\* ------------------------------------------------------------------------
\* insertMatchedStudents and the table lead_similar_users
\* ------------------------------------------------------------------------

\* the rows of the table for a lead
StoredFor(id) == {row \in store : row.lead_id = id}

deleteRows_everyLead(table, id) == {}

\* DELETE FROM lead_similar_users WHERE lead_id = $1
deleteRows(table, id) == {row \in table : row.lead_id # id}

\* the unique key of lead_similar_users (the table is declared outside the
\* repository): one row per lead and matched student
ConflictKey(row) == <<row.lead_id, row.mongo_id>>

insertRows_noConflict(table, id, topMatches) ==
    table \cup {[lead_id |-> id, mongo_id |-> topMatches[k].mongoId,
                 reason |-> topMatches[k].reason] : k \in 1..Len(topMatches)}

\* INSERT ... VALUES ... ON CONFLICT DO NOTHING: a row whose (lead_id, mongo_id)
\* is in the table, or earlier in the same statement, is skipped
RECURSIVE insertRows(_, _, _)
insertRows(table, id, topMatches) ==
    IF topMatches = <<>> THEN table
    ELSE LET m == Head(topMatches)
             conflict == \E row \in table : ConflictKey(row) = <<id, m.mongoId>>
         IN insertRows(
                IF conflict THEN table
                ELSE table \cup {[lead_id |-> id, mongo_id |-> m.mongoId, reason |-> m.reason]},
                id, Tail(topMatches))

insertMatchedStudents_begin_alwaysDelete(i, track) ==
    /\ pc[i] = "insertMatchedStudents"
    /\ pc' = [pc EXCEPT ![i] = "delete"]
    /\ priorStore' = IF track THEN [priorStore EXCEPT ![i] = store] ELSE priorStore
    /\ UNCHANGED << locals, store, prevRun, env >>

\* lines 467-475: nothing is done for an empty list.  With track, the table
\* as the call found it is remembered.
insertMatchedStudents_begin(i, track) ==
    /\ pc[i] = "insertMatchedStudents"
    /\ pc' = [pc EXCEPT ![i] =
                 IF Len(aiResult[i].topMatches) = 0 THEN "success" ELSE "delete"]
    /\ priorStore' = IF track THEN [priorStore EXCEPT ![i] = store] ELSE priorStore
    /\ UNCHANGED << locals, store, prevRun, env >>

insertMatchedStudents_delete_abortOnFailure(i) ==
    /\ pc[i] = "delete"
    /\ \E ok \in BOOLEAN :
        /\ calls' = [calls EXCEPT ![i] = Append(@, Call("delete", IF ok THEN "ok" ELSE "error"))]
        /\ IF ok
           THEN /\ store' = deleteRows(store, leadId[i])
                /\ pc' = [pc EXCEPT ![i] = "insert"]
                /\ UNCHANGED error
           ELSE /\ Throw(i, "DatabaseError", "Failed to insert matched students")
                /\ UNCHANGED store
    /\ UNCHANGED << event, leadId, client, leadData, inputText, embedding, similarStudents,
                    requestedLimit, prompt, aiResult, response, prevRun, priorStore, env >>

\* lines 477-488: the delete of the prior matches; its failure is logged
insertMatchedStudents_delete(i) ==
    /\ pc[i] = "delete"
    /\ \E ok \in BOOLEAN :
        /\ calls' = [calls EXCEPT ![i] = Append(@, Call("delete", IF ok THEN "ok" ELSE "error"))]
        /\ store' = IF ok THEN deleteRows(store, leadId[i]) ELSE store
    /\ pc' = [pc EXCEPT ![i] = "insert"]
    /\ UNCHANGED << event, leadId, client, leadData, inputText, embedding, similarStudents,
                    requestedLimit, prompt, aiResult, error, response, prevRun, priorStore, env >>

insertMatchedStudents_insert_swallowFailure(i) ==
    /\ pc[i] = "insert"
    /\ \E ok \in BOOLEAN :
        /\ calls' = [calls EXCEPT ![i] = Append(@, Call("insert", IF ok THEN "ok" ELSE "error"))]
        /\ store' = IF ok THEN insertRows(store, leadId[i], aiResult[i].topMatches) ELSE store
    /\ pc' = [pc EXCEPT ![i] = "success"]
    /\ UNCHANGED << event, leadId, client, leadData, inputText, embedding, similarStudents,
                    requestedLimit, prompt, aiResult, error, response, prevRun, priorStore, env >>

\* lines 490-507: the insert; its failure is thrown as a DatabaseError
insertMatchedStudents_insert(i) ==
    /\ pc[i] = "insert"
    /\ \E ok \in BOOLEAN :
        /\ calls' = [calls EXCEPT ![i] = Append(@, Call("insert", IF ok THEN "ok" ELSE "error"))]
        /\ IF ok
           THEN /\ store' = insertRows(store, leadId[i], aiResult[i].topMatches)
                /\ pc' = [pc EXCEPT ![i] = "success"]
                /\ UNCHANGED error
           ELSE /\ Throw(i, "DatabaseError", "Failed to insert matched students")
                /\ UNCHANGED store
    /\ UNCHANGED << event, leadId, client, leadData, inputText, embedding, similarStudents,
                    requestedLimit, prompt, aiResult, response, prevRun, priorStore, env >>

\* ------------------------------------------------------------------------
\* The responses and the release of the connection
\* ------------------------------------------------------------------------

\* lines 670-690
handler_success(i) ==
    /\ pc[i] = "success"
    /\ Return(i, 200,
           [leadId |-> leadId[i], matches |-> aiResult[i].topMatches,
            processingTime |-> Elapsed])
    /\ UNCHANGED << event, leadId, client, leadData, inputText, embedding, similarStudents,
                    requestedLimit, prompt, aiResult, error, calls, store, prevRun, priorStore, env >>

statusCodeOf_swapped(err) ==
    CASE err.name = "ValidationError" -> 400
      [] err.name = "DatabaseError" -> 502
      [] err.name = "OpenAIError" -> 503
      [] OTHER -> 500

\* lines 711-725
statusCodeOf(err) ==
    CASE err.name = "ValidationError" -> 400
      [] err.name = "DatabaseError" -> 503
      [] err.name = "OpenAIError" -> 502
      [] OTHER -> 500

errorMessageOf(err) ==
    CASE err.name = "ValidationError" -> "Validation error"
      [] err.name = "DatabaseError" -> "Database error"
      [] err.name = "OpenAIError" -> "AI service error"
      [] OTHER -> "Internal server error"

handler_catch_clearMatches(i) ==
    /\ pc[i] = "catch"
    /\ Return(i, statusCodeOf(error[i]),
           [error |-> errorMessageOf(error[i]), details |-> error[i].message,
            processingTime |-> Elapsed])
    /\ store' = deleteRows(store, leadId[i])
    /\ UNCHANGED << event, leadId, client, leadData, inputText, embedding, similarStudents,
                    requestedLimit, prompt, aiResult, error, calls, prevRun, priorStore, env >>

\* lines 691-737: the catch block
handler_catch(i) ==
    /\ pc[i] = "catch"
    /\ Return(i, statusCodeOf(error[i]),
           [error |-> errorMessageOf(error[i]), details |-> error[i].message,
            processingTime |-> Elapsed])
    /\ UNCHANGED << event, leadId, client, leadData, inputText, embedding, similarStudents,
                    requestedLimit, prompt, aiResult, error, calls, store, prevRun, priorStore, env >>

handler_finally_skipOnError(i) ==
    /\ pc[i] = "finally"
    /\ IF client[i] # "undefined" /\ error[i] = NoError
       THEN \E ok \in BOOLEAN :
               /\ calls' = [calls EXCEPT ![i] = Append(@, Call("end", IF ok THEN "ok" ELSE "error"))]
               /\ client' = [client EXCEPT ![i] = IF ok THEN "ended" ELSE @]
       ELSE UNCHANGED << client, calls >>
    /\ pc' = [pc EXCEPT ![i] = "done"]
    /\ UNCHANGED << event, leadId, leadData, inputText, embedding, similarStudents,
                    requestedLimit, prompt, aiResult, error, response, store, prevRun, priorStore, env >>

handler_finally_propagate(i) ==
    /\ pc[i] = "finally"
    /\ IF client[i] # "undefined"
       THEN \E ok \in BOOLEAN :
               /\ calls' = [calls EXCEPT ![i] = Append(@, Call("end", IF ok THEN "ok" ELSE "error"))]
               /\ client' = [client EXCEPT ![i] = IF ok THEN "ended" ELSE @]
               /\ response' = IF ok THEN response
                              ELSE [response EXCEPT ![i] =
                                       [statusCode |-> 500,
                                        body |-> [error |-> "Internal server error",
                                                  details |-> "end failed",
                                                  processingTime |-> Elapsed]]]
       ELSE UNCHANGED << client, calls, response >>
    /\ pc' = [pc EXCEPT ![i] = "done"]
    /\ UNCHANGED << event, leadId, leadData, inputText, embedding, similarStudents,
                    requestedLimit, prompt, aiResult, error, store, prevRun, priorStore, env >>

\* lines 738-752: the finally block; a failure of client.end() is logged
handler_finally(i) ==
    /\ pc[i] = "finally"
    /\ IF client[i] # "undefined"
       THEN \E ok \in BOOLEAN :
               /\ calls' = [calls EXCEPT ![i] = Append(@, Call("end", IF ok THEN "ok" ELSE "error"))]
               /\ client' = [client EXCEPT ![i] = IF ok THEN "ended" ELSE @]
       ELSE UNCHANGED << client, calls >>
    /\ pc' = [pc EXCEPT ![i] = "done"]
    /\ UNCHANGED << event, leadId, leadData, inputText, embedding, similarStudents,
                    requestedLimit, prompt, aiResult, error, response, store, prevRun, priorStore, env >>

\* ------------------------------------------------------------------------
\* The handler of src/src/controllers/lead-student-matching.ts.  Its module
\* check, validation, connection, getLeadData, profile text, generateEmbedding,
\* catch and finally blocks are those of similarStudents.ts; it differs from
\* the search on.
\* ------------------------------------------------------------------------

\* its preparePrompt has no number of matches
matching_preparePrompt(text, students) ==
    [inputText |-> text, similarStudents |-> students, numberMatches |-> 0]

\* lines 560-585, after the search returned students
matching_afterSearch(i, students) ==
    /\ similarStudents' = [similarStudents EXCEPT ![i] = students]
    /\ IF Len(students) = 0
       THEN /\ Return(i, 200,
                   [leadId |-> leadId[i], inputProfile |-> inputText[i],
                    message |-> "No similar students found", matches |-> <<>>,
                    processingTime |-> Elapsed])
            /\ UNCHANGED prompt
       ELSE /\ prompt' = [prompt EXCEPT ![i] = matching_preparePrompt(inputText[i], students)]
            /\ pc' = [pc EXCEPT ![i] = "getAIEvaluation"]
            /\ UNCHANGED response

\* line 557: await findSimilarStudents(client, embedding)
matching_findSimilarStudents(i, candidateSeqs) ==
    /\ pc[i] = "findSimilarStudents"
    /\ IF embedding[i] = <<>>
       THEN /\ Throw(i, "ValidationError", "Invalid embedding vector provided")
            /\ UNCHANGED << similarStudents, prompt, response, calls >>
       ELSE \E outcome \in SearchOutcomes(candidateSeqs) :
               LET r == findSimilarStudents_result(outcome)
               IN /\ calls' = [calls EXCEPT ![i] = Append(@, Call("search", outcome.kind))]
                  /\ IF r.threw
                     THEN /\ Throw(i, r.error.name, r.error.message)
                          /\ UNCHANGED << similarStudents, prompt, response >>
                     ELSE /\ matching_afterSearch(i, r.value)
                          /\ UNCHANGED error
    /\ UNCHANGED << event, leadId, client, leadData, inputText, embedding, requestedLimit,
                    aiResult, store, prevRun, priorStore, env >>

\* an element of top_matches that is a string of whitespace
BlankId == <<" ">>

\* elements of top_matches: the identifier of a student, an identifier of no
\* student, "", whitespace, and a value that is no string
MatchingIds ==
    {StudentId(k) : k \in 1..MaxStudents} \cup {FabricatedId, <<>>, BlankId, NonString}

\* the answers of its chat completion: as ChatResponses, with top_matches an
\* array of identifiers
MatchingChatResponses ==
    {[kind |-> k, parsed |-> NoParsed] :
        k \in {"throw", "no_choices", "no_content", "not_json", "json_null", "json"}}
      \cup {[kind |-> "json",
             parsed |-> [hasTopMatches |-> TRUE, isArray |-> FALSE, topMatches |-> <<>>]]}
      \cup {[kind |-> "json",
             parsed |-> [hasTopMatches |-> TRUE, isArray |-> TRUE, topMatches |-> ms]] :
                ms \in SeqsUpTo(MatchingIds, MaxMatches)}

\* lines 384-411: the checks of the response and the catch; the elements of
\* top_matches are not looked at
matching_getAIEvaluation_result(resp) ==
    CASE resp.kind \in {"throw", "json_null"} ->
            Threw("OpenAIError", "Failed to get AI evaluation", NoAIResult)
      [] resp.kind = "no_choices" ->
            Threw("OpenAIError", "Invalid response from OpenAI chat API", NoAIResult)
      [] resp.kind = "no_content" ->
            Threw("OpenAIError", "Empty response content from OpenAI", NoAIResult)
      [] resp.kind = "not_json" ->
            Threw("OpenAIError", "Failed to parse AI response as JSON", NoAIResult)
      [] resp.kind = "json" ->
            IF ~resp.parsed.hasTopMatches \/ ~resp.parsed.isArray
            THEN Threw("OpenAIError", "AI response does not contain valid top_matches array",
                       NoAIResult)
            ELSE Ok([topMatches |-> resp.parsed.topMatches])

matching_ChatCallResult(resp) ==
    IF resp.kind = "json" /\ ~matching_getAIEvaluation_result(resp).threw THEN "ok"
    ELSE IF resp.kind = "json" THEN "invalid"
    ELSE resp.kind

\* line 589: await getAIEvaluation(prompt)
matching_getAIEvaluation(i, responses) ==
    /\ pc[i] = "getAIEvaluation"
    /\ IF prompt[i] = NoPrompt
       THEN /\ Throw(i, "ValidationError", "Prompt for AI evaluation cannot be empty")
            /\ UNCHANGED << aiResult, calls >>
       ELSE \E resp \in responses :
               LET r == matching_getAIEvaluation_result(resp)
               IN /\ calls' = [calls EXCEPT ![i] =
                                  Append(@, Call("rerank", matching_ChatCallResult(resp)))]
                  /\ IF r.threw
                     THEN /\ Throw(i, r.error.name, r.error.message)
                          /\ UNCHANGED aiResult
                     ELSE /\ aiResult' = [aiResult EXCEPT ![i] = r.value]
                          /\ pc' = [pc EXCEPT ![i] = "getMatchedStudents"]
                          /\ UNCHANGED error
    /\ UNCHANGED << event, leadId, client, leadData, inputText, embedding, similarStudents,
                    requestedLimit, prompt, response, store, prevRun, priorStore, env >>

\* typeof id === "string" && id.trim().length > 0
validStudentId(id) == id # Null /\ id # NonString /\ Len(trim(id)) > 0

\* the row of student_embeddings of the k-th student, as getMatchedStudents
\* selects it
MatchedStudent(k) ==
    [mongo_id |-> StudentId(k), full_name |-> <<"n", IdDigits[k]>>, text |-> <<"t", IdDigits[k]>>]

matchedRows_noFilter(ks, ids) == {MatchedStudent(k) : k \in ks}

\* SELECT mongo_id, full_name, text FROM student_embeddings WHERE mongo_id IN
\* (ids), on the table that holds the students ks
matchedRows(ks, ids) == {MatchedStudent(k) : k \in {j \in ks : StudentId(j) \in Range(ids)}}

\* the rows of a result in any order
Orderings(S) ==
    {s \in [1..Cardinality(S) -> S] : \A a, b \in 1..Cardinality(S) : a # b => s[a] # s[b]}

\* what the query of getMatchedStudents can do: fail, or return the selected
\* rows of the table as it is then
MatchQueryOutcomes(ids) ==
    {[kind |-> "error", rows |-> <<>>]}
      \cup {[kind |-> "rows", rows |-> s] :
              s \in UNION {Orderings(matchedRows(ks, ids)) : ks \in SUBSET (1..MaxStudents)}}

\* lines 416-445 and 594-621: await getMatchedStudents(client,
\* aiResult.top_matches) and the 200 that returns its rows
getMatchedStudents(i) ==
    /\ pc[i] = "getMatchedStudents"
    /\ LET ids == aiResult[i].topMatches
           body(rows) ==
               [leadId |-> leadId[i], inputProfile |-> inputText[i],
                totalSimilarFound |-> Len(similarStudents[i]),
                aiSelectedMatches |-> Len(ids), matches |-> rows,
                processingTime |-> Elapsed]
       IN IF Len(ids) = 0
          THEN /\ Return(i, 200, body(<<>>))
               /\ UNCHANGED << error, calls >>
          ELSE IF ~(\A k \in 1..Len(ids) : validStudentId(ids[k]))
               THEN /\ Throw(i, "ValidationError", "Invalid student IDs in top matches")
                    /\ UNCHANGED << response, calls >>
               ELSE \E outcome \in MatchQueryOutcomes(ids) :
                       /\ calls' = [calls EXCEPT ![i] = Append(@, Call("match", outcome.kind))]
                       /\ IF outcome.kind = "error"
                          THEN /\ Throw(i, "DatabaseError", "Failed to retrieve matched students")
                               /\ UNCHANGED response
                          ELSE /\ Return(i, 200, body(outcome.rows))
                               /\ UNCHANGED error
    /\ UNCHANGED << event, leadId, client, leadData, inputText, embedding, similarStudents,
                    requestedLimit, prompt, aiResult, store, prevRun, priorStore, env >>

\* ------------------------------------------------------------------------
\* Specifications
\* ------------------------------------------------------------------------

\* a step of the handler in execution context i, with the inputs and the
\* answers of the collaborators drawn from the given families
Handle(i, events, rows, candidateSeqs, chatResponses, track) ==
    \/ handler_start(i, events, track)
    \/ handler_validate(i)
    \/ handler_connect(i)
    \/ getLeadData(i, rows)
    \/ handler_prepare(i)
    \/ generateEmbedding(i, EmbeddingResponses)
    \/ findSimilarStudents(i, candidateSeqs)
    \/ getAIEvaluation(i, chatResponses)
    \/ insertMatchedStudents_begin(i, track)
    \/ insertMatchedStudents_delete(i)
    \/ insertMatchedStudents_insert(i)
    \/ handler_success(i)
    \/ handler_catch(i)
    \/ handler_finally(i)

\* a step of execution context i: it loads the module, then it handles requests
Step(i, events, rows, candidateSeqs, chatResponses, track) ==
    \/ moduleLoad(i)
    \/ Handle(i, events, rows, candidateSeqs, chatResponses, track)

\* one execution context serving requests one after the other
Next == Step(1, Events(RawLeadIds, RawLimits), LeadRows, CandidateSeqs, ChatResponses, FALSE)

Spec == Init /\ [][Next]_vars

\* the generative model answers with a list of at most one well-formed match
ShortChatResponses ==
    {[kind |-> "json",
      parsed |-> [hasTopMatches |-> TRUE, isArray |-> TRUE, topMatches |-> ms]] :
         ms \in SeqsUpTo([mongoId : MatchIds, reason : {<<"r1">>}], 1)}

\* the generative model answers with no match or with the nearest student
NearestChatResponses ==
    {[kind |-> "json",
      parsed |-> [hasTopMatches |-> TRUE, isArray |-> TRUE, topMatches |-> ms]] :
         ms \in {<<>>, <<[mongoId |-> StudentId(1), reason |-> <<"r1">>]>>}}

\* the same, with leadId parameters around the length boundary
NextBoundary ==
    Step(1, Events(BoundaryLeadIds, {Null}), {NoRow, RealRow},
         {<<>>, orderByDistance(1..MaxStudents)}, NearestChatResponses, FALSE)

SpecBoundary == Init /\ [][NextBoundary]_vars

\* requests for one lead, one after the other, each remembered as the
\* previous run of the next
NextTwice ==
    Step(1, Events({<<"a">>}, {Null}), {RealRow},
         {orderByDistance(1..MaxStudents)}, ShortChatResponses, TRUE)

SpecTwice == Init /\ [][NextTwice]_vars

\* requests for one lead with every kind of limit parameter
NextLimits ==
    Step(1, Events({<<"a">>}, WideLimits), {RealRow},
         {orderByDistance(1..MaxStudents)}, NearestChatResponses, FALSE)

SpecLimits == Init /\ [][NextLimits]_vars

\* requests for one lead whose row is any of the profile rows
NextProfile ==
    Step(1, Events({<<"a">>}, {Null}), ProfileRows,
         {orderByDistance(1..MaxStudents)}, NearestChatResponses, FALSE)

SpecProfile == Init /\ [][NextProfile]_vars

\* texts generateEmbedding can be called with: "", whitespace only, whitespace
\* lines, and a profile text
EmbeddingTexts ==
    {<<>>, <<RawLine(<<" ">>)>>, <<RawLine(<<>>), RawLine(<<" ", " ">>)>>,
     prepareTextForEmbedding(RealRow)}

\* generateEmbedding is called on its own with one of these texts, in a module
\* that has loaded
InitEmbedding ==
    /\ pc = [i \in Invs |-> IF i = 1 THEN "generateEmbedding" ELSE "load"]
    /\ env = Range(requiredEnvVars)
    /\ event = [i \in Invs |-> NoEvent]
    /\ leadId = [i \in Invs |-> Null]
    /\ client = [i \in Invs |-> "undefined"]
    /\ leadData = [i \in Invs |-> NoRow]
    /\ inputText \in [Invs -> EmbeddingTexts]
    /\ \A i \in Invs : i # 1 => inputText[i] = <<>>
    /\ embedding = [i \in Invs |-> <<>>]
    /\ similarStudents = [i \in Invs |-> <<>>]
    /\ requestedLimit = [i \in Invs |-> 0]
    /\ prompt = [i \in Invs |-> NoPrompt]
    /\ aiResult = [i \in Invs |-> NoAIResult]
    /\ error = [i \in Invs |-> NoError]
    /\ response = [i \in Invs |-> NoResponse]
    /\ calls = [i \in Invs |-> <<>>]
    /\ store = {}
    /\ prevRun = NoRun
    /\ priorStore = [i \in Invs |-> {}]

\* the call and whatever the execution context does after it
NextEmbedding ==
    Handle(1, Events({<<"a">>}, {Null}), {RealRow},
           {orderByDistance(1..MaxStudents)}, NearestChatResponses, FALSE)

SpecEmbedding == InitEmbedding /\ [][NextEmbedding]_vars

\* the generative model answers with the nearest or with the farthest student
EitherChatResponses ==
    {[kind |-> "json",
      parsed |-> [hasTopMatches |-> TRUE, isArray |-> TRUE,
                  topMatches |-> <<[mongoId |-> StudentId(k), reason |-> <<"r1">>]>>]] :
         k \in {1, MaxStudents}}

\* the two execution contexts that serve requests at the same time
ConcurrentInvs == {1, 2}

\* two execution contexts serve requests for the existing leads at the same
\* time: the steps of their handlers interleave
NextConcurrent ==
    \E i \in ConcurrentInvs :
        Step(i, Events(ExistingLeadIds, {Null}), {RealRow},
             {orderByDistance(1..MaxStudents)}, EitherChatResponses, FALSE)

SpecConcurrent == Init /\ [][NextConcurrent]_vars

\* every kind of answer of the chat completion, with at most one element
OneItemChatResponses ==
    {r \in ChatResponses : Len(r.parsed.topMatches) <= 1}

\* one execution context whose awaited calls all return or fail: every step
\* of the handler that can be taken is taken
NextLive ==
    Step(1, Events(RawLeadIds, {Null}), {UniformRow(Sentinel), RealRow},
         {<<>>, orderByDistance(1..MaxStudents)}, OneItemChatResponses, FALSE)

SpecLive == Init /\ [][NextLive]_vars /\ WF_vars(NextLive)

\* LIMIT 30 of the nearest-neighbour query of lead-student-matching.ts
MatchingRetrievalWidth == 30

\* tables lead_similar_users the handler of lead-student-matching.ts can
\* find: empty, or with a match stored for a lead
MatchingStores ==
    {{}, insertRows({}, <<"b">>, <<[mongoId |-> StudentId(1), reason |-> <<"r1">>]>>)}

InitMatching ==
    /\ pc = [i \in Invs |-> "load"]
    /\ env \in SUBSET Range(requiredEnvVars)
    /\ event = [i \in Invs |-> NoEvent]
    /\ leadId = [i \in Invs |-> Null]
    /\ client = [i \in Invs |-> "undefined"]
    /\ leadData = [i \in Invs |-> NoRow]
    /\ inputText = [i \in Invs |-> <<>>]
    /\ embedding = [i \in Invs |-> <<>>]
    /\ similarStudents = [i \in Invs |-> <<>>]
    /\ requestedLimit = [i \in Invs |-> 0]
    /\ prompt = [i \in Invs |-> NoPrompt]
    /\ aiResult = [i \in Invs |-> NoAIResult]
    /\ error = [i \in Invs |-> NoError]
    /\ response = [i \in Invs |-> NoResponse]
    /\ calls = [i \in Invs |-> <<>>]
    /\ store \in MatchingStores
    /\ prevRun = NoRun
    /\ priorStore = [i \in Invs |-> {}]

\* the candidates its search returns: none, or the nearest students
MatchingCandidateSeqs ==
    {<<>>, LET rows == orderByDistance(1..MaxStudents)
           IN SubSeq(rows, 1, Min(Len(rows), MatchingRetrievalWidth))}

\* one execution context serving requests with the handler of
\* lead-student-matching.ts
NextMatching ==
    \/ moduleLoad(1)
    \/ handler_start(1, Events(RawLeadIds, {Null}), FALSE)
    \/ handler_validate(1)
    \/ handler_connect(1)
    \/ getLeadData(1, {UniformRow(Sentinel), RealRow})
    \/ handler_prepare(1)
    \/ generateEmbedding(1, EmbeddingResponses)
    \/ matching_findSimilarStudents(1, MatchingCandidateSeqs)
    \/ matching_getAIEvaluation(1, MatchingChatResponses)
    \/ getMatchedStudents(1)
    \/ handler_catch(1)
    \/ handler_finally(1)

SpecMatching == InitMatching /\ [][NextMatching]_vars

\* ------------------------------------------------------------------------
\* Properties
\* ------------------------------------------------------------------------

Ended(i) == pc[i] = "done"

\* the invocation has its response (the finally block may still have to run)
Responded(i) == pc[i] \in {"finally", "done"}

\* the invocation went through rerank and insertMatchedStudents to the 200
Succeeded(i) ==
    /\ Ended(i)
    /\ response[i].statusCode = 200
    /\ CalledWith(i, "rerank", {"ok"})

\* the rows a lead has when exactly the given matches are stored for it
RowsOf(id, topMatches) == insertRows({}, id, topMatches)

EndCalls(i) == Cardinality({k \in 1..Len(calls[i]) : calls[i][k].op = "end"})

NoPipelineCallAfterFetch(i) ==
    \A op \in {"embed", "search", "rerank", "delete", "insert"} : ~Called(i, op)

EmptyMatches(i) ==
    /\ response[i].statusCode = 200
    /\ "matches" \in DOMAIN response[i].body
    /\ response[i].body.matches = <<>>

\* C1: when an invocation succeeds after a previous invocation that observed
\* the same record row, embedding, candidates and rerank output, the rows
\* stored for the record are exactly the matches of one run.
C1_Idempotence ==
    \A i \in Invs :
        (Succeeded(i) /\ prevRun = Observed(i))
            => StoredFor(leadId[i]) = RowsOf(leadId[i], aiResult[i].topMatches)

\* C2: after a completed run for a record, the rows stored for the record are
\* exactly the result set of that run, never a union of old and new matches.
C2_Supersession ==
    \A i \in Invs :
        Succeeded(i) => StoredFor(leadId[i]) = RowsOf(leadId[i], aiResult[i].topMatches)

\* C3: an invocation whose connect succeeded calls client.end() exactly once,
\* when it ends and not before, whatever step failed or short-circuited; a
\* release that went through leaves the connection ended.
C3_ReleasedExactlyOnce ==
    \A i \in Invs :
        CalledWith(i, "connect", {"ok"}) =>
            /\ Ended(i) => EndCalls(i) = 1
            /\ ~Ended(i) => EndCalls(i) = 0
            /\ CalledWith(i, "end", {"ok"}) => client[i] = "ended"

\* an invocation that failed in the insert has released its connection
C3_Witness ==
    \E i \in Invs :
        /\ Ended(i)
        /\ CalledWith(i, "insert", {"error"})
        /\ EndCalls(i) = 1
        /\ client[i] = "ended"

\* the number of characters of a raw identifier that the allow-list keeps
AllowedCount(raw) == Cardinality({k \in 1..Len(raw) : raw[k] \in AllowedChars})

RejectedWithoutCalls(i) ==
    /\ response[i].statusCode = 400
    /\ client[i] = "undefined"
    /\ calls[i] = <<>>

\* C4 as stated: a leadId that is "", missing or of length 101 gets a 400 and
\* no connection or call is made.
C4_Length101Rejected ==
    \A i \in Invs :
        (/\ Ended(i)
         /\ event[i].present
         /\ \/ event[i].leadId \in {Null, <<>>}
            \/ Len(event[i].leadId) = MaxLeadIdLength + 1)
            => RejectedWithoutCalls(i)

\* C4 amended: a leadId that is "", missing, or that holds no allowed
\* character or more than 100 of them (so a string of 101 allowed characters)
\* gets a 400 and no connection or call is made.
C4_ValidationBoundary ==
    \A i \in Invs :
        (/\ Ended(i)
         /\ event[i].present
         /\ \/ event[i].leadId \in {Null, <<>>}
            \/ AllowedCount(event[i].leadId) = 0
            \/ AllowedCount(event[i].leadId) > MaxLeadIdLength)
            => RejectedWithoutCalls(i)

\* a leadId of 101 letters was rejected
C4_Witness ==
    \E i \in Invs :
        /\ Ended(i)
        /\ event[i].present
        /\ event[i].leadId = Rep("a", MaxLeadIdLength + 1)
        /\ RejectedWithoutCalls(i)

\* every semantic field of the row is absent, "" or "-"
AllFieldsUnset(row) == \A f \in Fields : row[f] \in {Null, <<>>, Sentinel}

\* C5: when the fetched row has every semantic field absent, empty or "-",
\* the response is a 200 with no match and no embedding, search, rerank or
\* persistence call is made.
C5_EmptyDataShortCircuit ==
    \A i \in Invs :
        (CalledWith(i, "fetch", {"row"}) /\ AllFieldsUnset(leadData[i])) =>
            /\ pc[i] \in {"prepare", "finally", "done"}
            /\ Responded(i) => EmptyMatches(i)
            /\ NoPipelineCallAfterFetch(i)

\* a row of sentinels was answered with the empty 200
C5_Witness ==
    \E i \in Invs :
        /\ Ended(i)
        /\ CalledWith(i, "fetch", {"row"})
        /\ leadData[i] = UniformRow(Sentinel)
        /\ EmptyMatches(i)

\* C6: when the nearest-neighbour search returns no row, the response is a
\* 200 with no match, not an error, and neither the rerank nor the
\* persistence is executed.
C6_NoCandidatesShortCircuit ==
    \A i \in Invs :
        (CalledWith(i, "search", {"rows"}) /\ similarStudents[i] = <<>>) =>
            /\ Responded(i)
            /\ EmptyMatches(i)
            /\ error[i] = NoError
            /\ \A op \in {"rerank", "delete", "insert"} : ~Called(i, op)

\* an invocation whose search returned nothing has ended
C6_Witness ==
    \E i \in Invs :
        /\ Ended(i)
        /\ CalledWith(i, "search", {"rows"})
        /\ similarStudents[i] = <<>>
        /\ EmptyMatches(i)

ShortCircuitMessages ==
    {"No meaningful data found for lead", "No text could be generated from lead data",
     "No similar students found"}

\* C7: a failed invocation answers 400 for a ValidationError, 503 for a
\* DatabaseError, 502 for an OpenAIError and 500 for anything else; a 200 comes
\* only from the success path and the short-circuits.
C7_StatusMapping ==
    \A i \in Invs :
        Responded(i) =>
            /\ error[i].name = "ValidationError" => response[i].statusCode = 400
            /\ error[i].name = "DatabaseError" => response[i].statusCode = 503
            /\ error[i].name = "OpenAIError" => response[i].statusCode = 502
            /\ error[i].name \notin {"", "ValidationError", "DatabaseError", "OpenAIError"}
                  => response[i].statusCode = 500
            /\ response[i].statusCode = 200 =>
                  /\ error[i] = NoError
                  /\ \/ /\ "message" \in DOMAIN response[i].body
                        /\ response[i].body.message \in ShortCircuitMessages
                     \/ /\ CalledWith(i, "rerank", {"ok"})
                        /\ aiResult[i].topMatches = <<>> \/ CalledWith(i, "insert", {"ok"})

\* a failed search was answered with 503
C7_Witness ==
    \E i \in Invs :
        /\ Ended(i)
        /\ CalledWith(i, "search", {"error"})
        /\ error[i].name = "DatabaseError"
        /\ response[i].statusCode = 503

\* C8: a failure of the connect, of the fetch, of the search or of the insert
\* is answered as a DatabaseError, with status 503.
C8_DatabaseFailuresAre503 ==
    \A i \in Invs :
        (/\ Ended(i)
         /\ \E op \in {"connect", "fetch", "search", "insert"} : CalledWith(i, op, {"error"}))
            => /\ error[i].name = "DatabaseError"
               /\ response[i].statusCode = 503

\* C9: when the embeddings call throws or returns no vector, the response is
\* a 502 with error "AI service error", and the search, the rerank and the
\* persistence are not executed.
C9_EmbeddingFailure ==
    \A i \in Invs :
        CalledWith(i, "embed", {"throw", "no_vector"}) =>
            /\ pc[i] \in {"catch", "finally", "done"}
            /\ Responded(i) =>
                  /\ response[i].statusCode = 502
                  /\ response[i].body.error = "AI service error"
            /\ \A op \in {"search", "rerank", "delete", "insert"} : ~Called(i, op)

\* an embeddings call that threw was answered with 502
C9_Witness ==
    \E i \in Invs :
        /\ Ended(i)
        /\ CalledWith(i, "embed", {"throw"})
        /\ response[i].statusCode = 502

\* C10: a fetch that matches no row fails with a ValidationError: the
\* response is a 400, and no embedding, search, rerank or persistence call
\* is made.
C10_NotFound ==
    \A i \in Invs :
        CalledWith(i, "fetch", {"no_rows"}) =>
            /\ pc[i] \in {"catch", "finally", "done"}
            /\ error[i].name = "ValidationError"
            /\ Responded(i) => response[i].statusCode = 400
            /\ NoPipelineCallAfterFetch(i)

\* a lead that was not found was answered with 400
C10_Witness ==
    \E i \in Invs :
        /\ Ended(i)
        /\ CalledWith(i, "fetch", {"no_rows"})
        /\ response[i].statusCode = 400

\* C11: when the insert of the matches fails, the invocation fails with a
\* DatabaseError although the match list was computed: the response is a 503
\* "Database error" whose body carries no matches.
C11_PersistFailureFatal ==
    \A i \in Invs :
        CalledWith(i, "insert", {"error"}) =>
            /\ aiResult[i].topMatches # <<>>
            /\ pc[i] \in {"catch", "finally", "done"}
            /\ error[i].name = "DatabaseError"
            /\ Responded(i) =>
                  /\ response[i].statusCode = 503
                  /\ response[i].body.error = "Database error"
                  /\ "matches" \notin DOMAIN response[i].body

\* a failed insert of two computed matches was answered with 503 and no matches
C11_Witness ==
    \E i \in Invs :
        /\ Ended(i)
        /\ CalledWith(i, "insert", {"error"})
        /\ Len(aiResult[i].topMatches) = MaxMatches
        /\ response[i].statusCode = 503
        /\ "matches" \notin DOMAIN response[i].body

\* the rows the table held for the lead when insertMatchedStudents was called
PriorFor(i) == {row \in priorStore[i] : row.lead_id = leadId[i]}

\* C12: once the insert of insertMatchedStudents has returned or failed, the
\* rows stored for the lead are either all the rows it had before the call or
\* exactly the new matches; a failed insert leaves the rows it had before.
C12_UpsertAtomic ==
    \A i \in Invs :
        Called(i, "insert") =>
            /\ StoredFor(leadId[i])
                  \in {PriorFor(i), RowsOf(leadId[i], aiResult[i].topMatches)}
            /\ CalledWith(i, "insert", {"error"}) => StoredFor(leadId[i]) = PriorFor(i)

\* C13: insertMatchedStudents with an empty list returns at once: no delete
\* and no insert is issued and the table is as the call found it, for every
\* lead.
C13_EmptyUpsertNoOp ==
    \A i \in Invs :
        (CalledWith(i, "rerank", {"ok"}) /\ aiResult[i].topMatches = <<>>) =>
            /\ pc[i] \in {"insertMatchedStudents", "success", "finally", "done"}
            /\ ~Called(i, "delete")
            /\ ~Called(i, "insert")
            /\ pc[i] # "insertMatchedStudents" => store = priorStore[i]

\* an invocation with no match ended and left the stored rows of the lead
C13_Witness ==
    \E i \in Invs :
        /\ Ended(i)
        /\ CalledWith(i, "rerank", {"ok"})
        /\ aiResult[i].topMatches = <<>>
        /\ response[i].statusCode = 200
        /\ store # {}
        /\ store = priorStore[i]

\* C14: a failed delete does not end the call: the insert is issued next and,
\* when it goes through, the invocation succeeds with the matches; a failed
\* insert always fails the invocation with a DatabaseError.
C14_DeleteBestEffort ==
    \A i \in Invs :
        /\ CalledWith(i, "delete", {"error"}) =>
              /\ pc[i] = "insert" \/ Called(i, "insert")
              /\ CalledWith(i, "insert", {"ok"}) =>
                    /\ error[i] = NoError
                    /\ Responded(i) =>
                          /\ response[i].statusCode = 200
                          /\ response[i].body.matches = aiResult[i].topMatches
        /\ CalledWith(i, "insert", {"error"}) => error[i].name = "DatabaseError"

\* an invocation whose delete failed and whose insert went through got its 200
C14_Witness ==
    \E i \in Invs :
        /\ Ended(i)
        /\ CalledWith(i, "delete", {"error"})
        /\ CalledWith(i, "insert", {"ok"})
        /\ response[i].statusCode = 200

\* the list names some student more than once
HasDuplicateIds(topMatches) ==
    \E j, k \in 1..Len(topMatches) : j # k /\ topMatches[j].mongoId = topMatches[k].mongoId

\* C15: the table never holds two rows for one lead and one matched student;
\* an insert whose list names a student twice goes through without an error.
C15_UniquePerPair ==
    /\ \A r1, r2 \in store : ConflictKey(r1) = ConflictKey(r2) => r1 = r2
    /\ \A i \in Invs :
          (CalledWith(i, "insert", {"ok"}) /\ HasDuplicateIds(aiResult[i].topMatches)) =>
              /\ error[i] = NoError
              /\ Responded(i) => response[i].statusCode = 200

\* a list naming one student twice was stored as one row and answered with 200
C15_Witness ==
    \E i \in Invs :
        /\ Ended(i)
        /\ CalledWith(i, "insert", {"ok"})
        /\ HasDuplicateIds(aiResult[i].topMatches)
        /\ response[i].statusCode = 200
        /\ Cardinality(StoredFor(leadId[i])) = 1

\* the mongo_id of the candidates the prompt was built from
CandidateIds(i) == {similarStudents[i][k].mongo_id : k \in 1..Len(similarStudents[i])}

\* C16: every mongoId that getAIEvaluation returned, and so every one in the
\* response and in the rows stored by the invocation, is the mongo_id of a
\* candidate passed to it.
C16_Containment ==
    \A i \in Invs :
        CalledWith(i, "rerank", {"ok"}) =>
            \A k \in 1..Len(aiResult[i].topMatches) :
                aiResult[i].topMatches[k].mongoId \in CandidateIds(i)

\* C17: with requested limit L, the success response never carries more than
\* L matches and the insert never stores more than L rows for the lead.
C17_LimitRespect ==
    \A i \in Invs :
        /\ CalledWith(i, "rerank", {"ok"}) =>
              Len(aiResult[i].topMatches) <= requestedLimit[i]
        /\ (Succeeded(i) /\ CalledWith(i, "delete", {"ok"})) =>
              Cardinality(StoredFor(leadId[i])) <= requestedLimit[i]

\* every element has a non-empty string as mongoId and as reason
WellFormed(topMatches) ==
    \A k \in 1..Len(topMatches) :
        /\ IsNonEmptyString(topMatches[k].mongoId)
        /\ IsNonEmptyString(topMatches[k].reason)

\* C19: the answer of the chat completion is accepted only when it is JSON
\* with a topMatches array whose elements all have a non-empty string mongoId
\* and reason; any other answer fails the invocation with an OpenAIError,
\* answered 502, and neither the delete nor the insert is issued.
C19_RerankOutputValidation ==
    \A i \in Invs :
        /\ pc[i] \in {"insertMatchedStudents", "delete", "insert", "success"} =>
              /\ CalledWith(i, "rerank", {"ok"})
              /\ WellFormed(aiResult[i].topMatches)
        /\ (Called(i, "rerank") /\ ~CalledWith(i, "rerank", {"ok"})) =>
              /\ pc[i] \in {"catch", "finally", "done"}
              /\ error[i].name = "OpenAIError"
              /\ Responded(i) => response[i].statusCode = 502
              /\ ~Called(i, "delete")
              /\ ~Called(i, "insert")

\* an answer whose second element has no valid reason was answered with 502
C19_Witness ==
    \E i \in Invs :
        /\ Ended(i)
        /\ CalledWith(i, "rerank", {"invalid"})
        /\ error[i].message = "Match item missing valid reason property"
        /\ response[i].statusCode = 502
        /\ ~Called(i, "insert")

\* C20: every response carries the elapsed processing time in its body.
C20_ElapsedInEveryResponse ==
    \A i \in Invs :
        Responded(i) => "processingTime" \in DOMAIN response[i].body

\* C18: the limit the prompt is built with is an integer from 1 to 10: 10
\* when the limit parameter is absent or parses to no number, 1 when the
\* parsed value is below 1, 10 when it is above 10, the parsed value otherwise.
C18_LimitClamping ==
    \A i \in Invs :
        prompt[i] # NoPrompt =>
            LET raw == event[i].limit
                n == IF raw = Null THEN NaN ELSE parseInt(raw)
                L == prompt[i].numberMatches
            IN /\ L \in 1..10
               /\ L = requestedLimit[i]
               /\ n.nan => L = 10
               /\ (~n.nan /\ n.n < 1) => L = 1
               /\ (~n.nan /\ n.n > 10) => L = 10
               /\ (~n.nan /\ n.n \in 1..10) => L = n.n

\* a request with limit "-5" was reranked with limit 1
C18_Witness ==
    \E i \in Invs :
        /\ Ended(i)
        /\ event[i].limit = <<"-", "5">>
        /\ CalledWith(i, "rerank", {"ok"})
        /\ prompt[i].numberMatches = 1

\* C24: when OPENAI_API_KEY or POSTGRES_URI is missing, loading the module
\* fails and the execution context never takes a request: no event is
\* received, no call is made and no response is returned.
C24_FatalConfiguration ==
    \A i \in Invs :
        missingVars # {} =>
            /\ pc[i] \in {"load", "fatal"}
            /\ event[i] = NoEvent
            /\ calls[i] = <<>>
            /\ response[i] = NoResponse

\* the module failed to load without the connection string
C24_Witness ==
    \E i \in Invs :
        /\ pc[i] = "fatal"
        /\ env = {"OPENAI_API_KEY"}

\* the labels of the nine fields, in the order of the profile text
Labels ==
    << "Bachelor School", "Bachelor Program", "Bachelor GPA",
       "Master School", "Master Program", "Master GPA",
       "Intended Program Level", "Intended Programs", "Intended Direction" >>

\* the value is present, not "" and not "-"
IsSet(v) == v \notin {Null, <<>>, Sentinel}

\* the lines of the text that carry the label of the k-th field
LinesOf(text, k) == {l \in 1..Len(text) : text[l].label = Labels[k]}

\* the handler has computed the profile text of the row it fetched
TextComputed(i) ==
    \/ pc[i] = "generateEmbedding"
    \/ Called(i, "embed")
    \/ /\ Responded(i)
       /\ "message" \in DOMAIN response[i].body
       /\ response[i].body.message = "No text could be generated from lead data"

\* C21: the profile text has exactly one line "<Label>: <value>" for each of
\* the nine fields that is present, not "" and not "-", with the value of
\* that field, in the fixed order of the fields, and no other line.
C21_ProfileProjection ==
    \A i \in Invs :
        TextComputed(i) =>
            LET text == inputText[i]
                row == leadData[i]
            IN /\ \A k \in 1..Len(Labels) :
                     IF IsSet(row[meaningfulFields[k]])
                     THEN /\ Cardinality(LinesOf(text, k)) = 1
                          /\ \A l \in LinesOf(text, k) :
                                text[l].value = row[meaningfulFields[k]]
                     ELSE LinesOf(text, k) = {}
               /\ \A l \in 1..Len(text) : \E k \in 1..Len(Labels) : l \in LinesOf(text, k)
               /\ \A l1, l2 \in 1..Len(text) :
                     l1 < l2 => \E k1, k2 \in 1..Len(Labels) :
                                  k1 < k2 /\ l1 \in LinesOf(text, k1) /\ l2 \in LinesOf(text, k2)

\* a row with "-" as bachelor_gpa and a value in the eight other fields got
\* a text of eight lines
C21_Witness ==
    \E i \in Invs :
        /\ Ended(i)
        /\ Called(i, "embed")
        /\ leadData[i]["bachelor_gpa"] = Sentinel
        /\ leadData[i]["intended_direction"] = FieldValue(9)
        /\ Len(inputText[i]) = Len(Labels) - 1

\* the row of the example was fetched and answered
ExampleAnswered(i) ==
    /\ Responded(i)
    /\ CalledWith(i, "fetch", {"row"})
    /\ leadData[i] = ExampleRow

\* the answer is the 200 with the message, no match and a processing time
ShortCircuitWith(i, message) ==
    /\ EmptyMatches(i)
    /\ "message" \in DOMAIN response[i].body
    /\ response[i].body.message = message
    /\ "processingTime" \in DOMAIN response[i].body

\* C22 as stated: the row with bachelor_school and intended_programs "-" and
\* nothing else gets the empty profile text and the 200 whose message is
\* "No text could be generated from lead data".
C22_ExampleNoText ==
    \A i \in Invs :
        ExampleAnswered(i) =>
            /\ inputText[i] = <<>>
            /\ ShortCircuitWith(i, "No text could be generated from lead data")

\* C22 amended: that row fails the meaningfulness check, so no profile text
\* is computed and the 200 has the message "No meaningful data found for lead",
\* no match and a processing time.
C22_ExampleNoMeaningfulData ==
    \A i \in Invs :
        ExampleAnswered(i) =>
            /\ inputText[i] = <<>>
            /\ ShortCircuitWith(i, "No meaningful data found for lead")
            /\ NoPipelineCallAfterFetch(i)

\* the row of the example was answered with the no-meaningful-data message
C22_Witness ==
    \E i \in Invs :
        /\ Ended(i)
        /\ ExampleAnswered(i)
        /\ ShortCircuitWith(i, "No meaningful data found for lead")

StatusCodes == {200, 400, 500, 502, 503}

\* the invocation is in the handler and has not returned
Running(i) == pc[i] \notin {"load", "fatal", "idle", "done"}

\* C23: an invocation whose calls all return or fail ends, with a response
\* whose status is 200, 400, 500, 502 or 503; it has no response while it
\* runs up to its return or catch, and the response it has set is the one it
\* ends with.
C23_AlwaysResponds ==
    /\ [](\A i \in Invs :
            /\ Responded(i) => response[i].statusCode \in StatusCodes
            /\ (Running(i) /\ ~Responded(i)) => response[i] = NoResponse)
    /\ [][\A i \in Invs : (Responded(i) /\ Running(i)) => response'[i] = response[i]]_vars
    /\ (Running(1) ~> Ended(1))

\* an invocation ended with its 503 although client.end() failed as well
C23_Witness ==
    \E i \in Invs :
        /\ Ended(i)
        /\ CalledWith(i, "fetch", {"error"})
        /\ CalledWith(i, "end", {"error"})
        /\ response[i].statusCode = 503

\* the place of a call in the pipeline
StepRank(op) ==
    CASE op = "connect" -> 1 [] op = "fetch" -> 2 [] op = "embed" -> 3
      [] op = "search" -> 4 [] op = "rerank" -> 5 [] op = "delete" -> 6
      [] op = "insert" -> 7 [] op = "end" -> 8

\* the step of the call failed (a failed delete does not fail the persistence)
StepFailed(call) ==
    \/ call.op \in {"connect", "search", "insert"} /\ call.result = "error"
    \/ call.op = "fetch" /\ call.result \in {"error", "no_rows"}
    \/ call.op = "embed" /\ call.result \in {"throw", "no_vector"}
    \/ call.op = "rerank" /\ call.result # "ok"

\* C25: the calls of an invocation are made in the order connect, fetch,
\* embed, search, rerank, delete, insert, each one right after the one before
\* it has succeeded, after the leadId was validated and, from embed on, after
\* the meaningfulness check passed; once a step has failed the only call left
\* is client.end(), which is made when the response is set.
C25_StepOrder ==
    \A i \in Invs :
        /\ calls[i] # <<>> => calls[i][1].op = "connect" /\ leadId[i] # Null
        /\ Called(i, "embed") => validateLeadData(leadData[i])
        /\ Called(i, "end") => Responded(i)
        /\ \A k \in 2..Len(calls[i]) :
              IF calls[i][k].op = "end"
              THEN k = Len(calls[i])
              ELSE /\ StepRank(calls[i][k].op) = StepRank(calls[i][k - 1].op) + 1
                   /\ ~StepFailed(calls[i][k - 1])
        /\ (calls[i] # <<>> /\ StepFailed(calls[i][Len(calls[i])])) =>
              pc[i] \in {"catch", "finally"}

\* an invocation made its seven calls in order and then released the client
C25_Witness ==
    \E i \in Invs :
        /\ Ended(i)
        /\ Len(calls[i]) = 8
        /\ \A k \in 1..8 : StepRank(calls[i][k].op) = k
        /\ response[i].statusCode = 200

\* the invocation deleted the prior rows, inserted its matches and answered 200
Persisted(i) ==
    /\ Succeeded(i)
    /\ CalledWith(i, "delete", {"ok"})
    /\ CalledWith(i, "insert", {"ok"})

\* C26: when two invocations for one lead have both deleted, inserted and
\* ended, however their statements interleaved, the rows stored for the lead
\* are exactly the matches of one of them.
C26_ConcurrentSameRecord ==
    \A i, j \in Invs :
        (i # j /\ Persisted(i) /\ Persisted(j) /\ leadId[i] = leadId[j]) =>
            StoredFor(leadId[i]) \in {RowsOf(leadId[i], aiResult[i].topMatches),
                                      RowsOf(leadId[j], aiResult[j].topMatches)}

\* C27: a step of an invocation changes no row of a lead other than its own,
\* and neither the connection nor the calls of another invocation.
C27_NoInterference ==
    [][\A i \in Invs :
          pc'[i] # pc[i] =>
              /\ \A row \in (store \ store') \cup (store' \ store) : row.lead_id = leadId[i]
              /\ \A j \in Invs \ {i} : client'[j] = client[j] /\ calls'[j] = calls[j]]_vars

\* two invocations for different leads have both persisted, and each lead has
\* the matches of its own invocation
C27_Witness ==
    \E i, j \in Invs :
        /\ Persisted(i) /\ Persisted(j)
        /\ leadId[i] # leadId[j]
        /\ aiResult[i] # aiResult[j]
        /\ StoredFor(leadId[i]) = RowsOf(leadId[i], aiResult[i].topMatches)
        /\ StoredFor(leadId[j]) = RowsOf(leadId[j], aiResult[j].topMatches)

\* C28: an embedding that generateEmbedding returned is not empty, and when
\* the embeddings API answers with no vector, a malformed response or an
\* empty vector the invocation fails with an OpenAIError, answered 502.
C28_EmbeddingNonEmpty ==
    \A i \in Invs :
        /\ pc[i] = "findSimilarStudents" => embedding[i] # <<>>
        /\ (CalledWith(i, "embed", {"no_vector", "empty_vector"}) /\ Responded(i)) =>
              /\ error[i].name = "OpenAIError"
              /\ response[i].statusCode = 502

\* C29: generateEmbedding called with a text that is empty after trimming
\* throws the ValidationError "Text for embedding cannot be empty", as a
\* ValidationError, and does not call the embeddings API.
C29_BlankTextRejected ==
    [][\A i \in Invs :
          (pc[i] = "generateEmbedding" /\ IsBlankText(inputText[i]) /\ pc'[i] # pc[i]) =>
              /\ pc'[i] = "catch"
              /\ error'[i] = [name |-> "ValidationError",
                              message |-> "Text for embedding cannot be empty"]
              /\ calls'[i] = calls[i]]_vars

\* a call with a text of whitespace was refused without a call of the API
C29_Witness ==
    \E i \in Invs :
        /\ pc[i] = "catch"
        /\ inputText[i] = <<RawLine(<<" ">>)>>
        /\ error[i].message = "Text for embedding cannot be empty"
        /\ ~Called(i, "embed")

\* the 200 has the given message
HasMessage(i, message) ==
    "message" \in DOMAIN response[i].body /\ response[i].body.message = message

\* C30: an invocation answers 200 only when no step it made has failed, a
\* failed delete of the prior matches apart; the 200 either follows the whole
\* pipeline through the persistence or is one of the three short-circuits,
\* each for its own reason.
C30_NoSilentRecovery ==
    \A i \in Invs :
        (Responded(i) /\ response[i].statusCode = 200) =>
            /\ error[i] = NoError
            /\ \A k \in 1..Len(calls[i]) : ~StepFailed(calls[i][k])
            /\ CalledWith(i, "connect", {"ok"}) /\ CalledWith(i, "fetch", {"row"})
            /\ \/ /\ HasMessage(i, "No meaningful data found for lead")
                  /\ ~validateLeadData(leadData[i])
                  /\ NoPipelineCallAfterFetch(i)
               \/ /\ HasMessage(i, "No text could be generated from lead data")
                  /\ IsBlankText(inputText[i])
                  /\ NoPipelineCallAfterFetch(i)
               \/ /\ HasMessage(i, "No similar students found")
                  /\ CalledWith(i, "embed", {"vector"}) /\ CalledWith(i, "search", {"rows"})
                  /\ similarStudents[i] = <<>>
                  /\ \A op \in {"rerank", "delete", "insert"} : ~Called(i, op)
               \/ /\ "message" \notin DOMAIN response[i].body
                  /\ CalledWith(i, "embed", {"vector"}) /\ CalledWith(i, "search", {"rows"})
                  /\ CalledWith(i, "rerank", {"ok"})
                  /\ response[i].body.matches = aiResult[i].topMatches
                  /\ IF aiResult[i].topMatches = <<>>
                     THEN ~Called(i, "delete") /\ ~Called(i, "insert")
                     ELSE Called(i, "delete") /\ CalledWith(i, "insert", {"ok"})

\* a 200 with its matches after a failed delete, whose client.end() failed too
C30_Witness ==
    \E i \in Invs :
        /\ Ended(i)
        /\ response[i].statusCode = 200
        /\ CalledWith(i, "delete", {"error"})
        /\ CalledWith(i, "end", {"error"})
        /\ response[i].body.matches # <<>>

\* the step is a statement of insertMatchedStudents: its DELETE or its INSERT,
\* which are issued for a list of matches that is not empty
PersistingStep(i) ==
    pc[i] \in {"delete", "insert"} /\ aiResult[i].topMatches # <<>>

\* C31: no step of an invocation other than the DELETE and the INSERT of
\* insertMatchedStudents changes the table, so an invocation that ends before
\* them (a rejected leadId, a lead that is not found, a short-circuit, an
\* empty list of matches, a failed connect, fetch, embedding, search or
\* rerank) leaves the rows of every lead as they were.
C31_NoWriteBeforePersisting ==
    [][\A i \in Invs : (pc'[i] # pc[i] /\ ~PersistingStep(i)) => store' = store]_vars

\* an invocation whose rerank failed has ended and the rows of an earlier
\* invocation are in the table
C31_Witness ==
    \E i \in Invs :
        /\ Ended(i)
        /\ store # {}
        /\ CalledWith(i, "rerank", {"not_json"})
        /\ ~Called(i, "delete") /\ ~Called(i, "insert")

\* the invocation has ended with the 200 that carries a list of matches that
\* is not empty
AnsweredWithMatches(i) ==
    /\ Ended(i)
    /\ response[i].statusCode = 200
    /\ "matches" \in DOMAIN response[i].body
    /\ response[i].body.matches # <<>>

\* C32: when an invocation has answered 200 with matches, the table holds for
\* its lead exactly one row for each identifier of the response and no other
\* row, and the reason of each row is the reason the response gives for that
\* identifier.
C32_StoreAgreesWithResponse ==
    \A i \in Invs :
        AnsweredWithMatches(i) =>
            LET ms == response[i].body.matches
                rows == StoredFor(leadId[i])
            IN /\ {row.mongo_id : row \in rows} = {ms[k].mongoId : k \in 1..Len(ms)}
               /\ \A k \in 1..Len(ms) :
                     /\ Cardinality({row \in rows : row.mongo_id = ms[k].mongoId}) = 1
                     /\ \A row \in rows :
                           row.mongo_id = ms[k].mongoId => row.reason = ms[k].reason

\* C33: client.end() is called only in an invocation whose client.connect()
\* succeeded; after a failed connect no release is attempted.
C33_ReleaseOnlyAfterConnect ==
    \A i \in Invs :
        Called(i, "end") => CalledWith(i, "connect", {"ok"})

\* the calls that are queries on the client
RepositoryOps == {"fetch", "search", "delete", "insert"}

\* C34: every query of an invocation (the fetch of the lead, the
\* nearest-neighbour search, the DELETE, the INSERT) is issued after its
\* client.connect() has succeeded and before its client.end(): the client is
\* connected wherever the handler is about to issue a query.
C34_QueriesOnOpenConnection ==
    \A i \in Invs :
        /\ \A k \in 1..Len(calls[i]) :
              calls[i][k].op \in RepositoryOps =>
                  /\ \E j \in 1..(k - 1) : calls[i][j] = Call("connect", "ok")
                  /\ \A j \in 1..(k - 1) : calls[i][j].op # "end"
        /\ pc[i] \in {"getLeadData", "findSimilarStudents", "delete", "insert"} =>
              client[i] = "connected"

\* an invocation issued its four queries, the DELETE failing, and then ended
\* its connection
C34_Witness ==
    \E i \in Invs :
        /\ Ended(i)
        /\ \A op \in RepositoryOps : Called(i, op)
        /\ CalledWith(i, "delete", {"error"})
        /\ calls[i][Len(calls[i])] = Call("end", "ok")
        /\ client[i] = "ended"

\* C35: the step that releases the connection ends the invocation with the
\* response and the error it had before the release, whether client.end()
\* succeeds or fails: a failure of the release is not propagated.
C35_ReleaseFailureContained ==
    [][\A i \in Invs :
          (pc[i] = "finally" /\ pc'[i] # pc[i]) =>
              /\ pc'[i] = "done"
              /\ response'[i] = response[i]
              /\ response'[i] # NoResponse
              /\ error'[i] = error[i]]_vars

\* an invocation ended with the 400 of a lead that was not found although
\* client.end() failed
C35_Witness ==
    \E i \in Invs :
        /\ Ended(i)
        /\ CalledWith(i, "fetch", {"no_rows"})
        /\ calls[i][Len(calls[i])] = Call("end", "error")
        /\ response[i].statusCode = 400
        /\ response[i].body.details = "Lead with ID not found"

\* the invocation fetched a row that validateLeadData accepts and went on
AcceptedRow(i) ==
    /\ CalledWith(i, "fetch", {"row"})
    /\ validateLeadData(leadData[i])
    /\ pc[i] # "prepare"

\* C36: for a row that validateLeadData accepts, the profile text is not
\* empty after trimming, so no invocation is answered with the short-circuit
\* "No text could be generated from lead data".
C36_AcceptedRowHasText ==
    \A i \in Invs :
        /\ AcceptedRow(i) =>
              /\ ~IsBlankText(inputText[i])
              /\ inputText[i] = prepareTextForEmbedding(leadData[i])
              /\ Responded(i) => Called(i, "embed")
        /\ Responded(i) => ~HasMessage(i, "No text could be generated from lead data")

\* a row whose only value is its intended_direction was accepted and embedded
\* with a text of one line
C36_Witness ==
    \E i \in Invs :
        /\ Ended(i)
        /\ AcceptedRow(i)
        /\ leadData[i] = [NoRow EXCEPT !["intended_direction"] = <<"x">>]
        /\ Len(inputText[i]) = 1
        /\ Called(i, "embed")

\* C37: validateLeadData and prepareTextForEmbedding agree field by field: a
\* field counts as meaningful exactly when it has a line in the profile
\* text, also when its value is whitespace only.
C37_FieldAgreement ==
    \A i \in Invs :
        TextComputed(i) =>
            \A k \in 1..Len(meaningfulFields) :
                meaningfulValue(leadData[i][meaningfulFields[k]])
                    <=> LinesOf(inputText[i], k) # {}

\* the identifier has only allowed characters, from 1 to 100 of them, and
\* validateLeadId returns it as it is
Sanitized(id) ==
    /\ Range(id) \subseteq AllowedChars
    /\ Len(id) \in 1..MaxLeadIdLength
    /\ validateLeadId(id) = id

\* C38: the leadId that validateLeadId accepts has only letters, digits, "_"
\* and "-", has 1 to 100 characters and is a fixed point of validateLeadId;
\* the lead is fetched, its matches are stored and the response is written
\* with that identifier and not with the raw parameter.
C38_SanitizedIdentifier ==
    \A i \in Invs :
        /\ leadId[i] # Null =>
              /\ leadId[i] = validateLeadId(event[i].leadId)
              /\ Sanitized(leadId[i])
        /\ Called(i, "connect") => leadId[i] # Null
        /\ CalledWith(i, "fetch", {"row"}) => leadId[i] \in ExistingLeadIds
        /\ (Responded(i) /\ "leadId" \in DOMAIN response[i].body) =>
              response[i].body.leadId = leadId[i]
        /\ CalledWith(i, "insert", {"ok"}) =>
              \A k \in 1..Len(aiResult[i].topMatches) :
                 \E row \in StoredFor(leadId[i]) :
                    row.mongo_id = aiResult[i].topMatches[k].mongoId
        /\ \A row \in store : Sanitized(row.lead_id)

\* the parameter "a !" was sanitized to "a", and the lead was fetched, stored
\* and answered under "a"
C38_Witness ==
    \E i \in Invs :
        /\ Ended(i)
        /\ event[i].leadId = <<"a", " ", "!">>
        /\ leadId[i] = <<"a">>
        /\ CalledWith(i, "insert", {"ok"})
        /\ response[i].body.leadId = <<"a">>
        /\ StoredFor(<<"a">>) # {}

\* the invocation has the 200 that getMatchedStudents' rows are returned in
MatchedAnswer(i) ==
    /\ Responded(i)
    /\ response[i].statusCode = 200
    /\ "aiSelectedMatches" \in DOMAIN response[i].body

\* C39: the handler of lead-student-matching.ts only reads: it issues no
\* DELETE and no INSERT and no step of it changes lead_similar_users; the
\* matches it returns are rows whose mongo_id is in the top_matches of the
\* generative model, and for an empty top_matches it returns no match without
\* a query.
C39_MatchingReadOnly ==
    /\ [](\A i \in Invs :
            /\ ~Called(i, "delete") /\ ~Called(i, "insert")
            /\ MatchedAnswer(i) =>
                  LET matches == response[i].body.matches
                      ids == aiResult[i].topMatches
                  IN /\ \A k \in 1..Len(matches) : matches[k].mongo_id \in Range(ids)
                     /\ ids = <<>> => matches = <<>> /\ ~Called(i, "match")
                     /\ ids # <<>> => CalledWith(i, "match", {"rows"}))
    /\ [][store' = store]_vars

\* with a match stored for another lead, top_matches named a student and an
\* identifier of no student, and the row of the student alone was returned
C39_Witness ==
    \E i \in Invs :
        /\ Ended(i)
        /\ MatchedAnswer(i)
        /\ store # {}
        /\ aiResult[i].topMatches = <<StudentId(1), FabricatedId>>
        /\ response[i].body.matches = <<MatchedStudent(1)>>

====
